---------------------------- MODULE Spec2Model ----------------------------
(***************************************************************************)
(* Daily Boggle: the dictionary index, the adjacency relation, the         *)
(* exhaustive solver and the scoring of a round, modelled from             *)
(* src/app/play/page.tsx.                                                  *)
(*                                                                         *)
(* A JavaScript string is a sequence of one-character strings, so that     *)
(* length, slicing, concatenation and comparison are computed and not      *)
(* assumed.  A tile is such a string too: <<"a">> or <<"q","u">>.          *)
(***************************************************************************)
EXTENDS Integers, Sequences, FiniteSets, Bags, TLC

VARIABLES
    pc,             \* position of the page's synchronous computation
    rawText,        \* buildDictionary: the text handed to it
    lines,          \* buildDictionary: rawText.split(/\r?\n/)
    lineIdx,        \* buildDictionary: index (1-based) of the next line of the for loop
    words,          \* buildDictionary: the Set words
    prefixes,       \* buildDictionary: the Set prefixes
    argA,           \* isAdjacent: the argument a
    argB,           \* isAdjacent: the argument b
    adjacent,       \* isAdjacent: the value returned (FALSE before the call)
    grid,           \* solveGrid: the 16 tiles, indexed 0..15
    results,        \* solveGrid: the Set results, in insertion order
    startI,         \* solveGrid: the counter i of the loop over starting positions
    stack,          \* solveGrid: the frames of the nested dfs calls, innermost last
    allWords,       \* solveGrid: the sorted array returned (empty before)
    startOrder,     \* solveGrid: the position the loop over the starting positions
                    \* takes at each value of its counter i (i itself in the code)
    neighbourOrder, \* solveGrid: the position the loop of dfs takes at each value
                    \* of its counter n (n itself in the code)
    selected,       \* PlayPage: the positions of the tiles selected, in order
    score,          \* PlayPage: the running score
    foundWords,     \* PlayPage: the Set of words scored as new
    submissions,    \* PlayPage: the submissions recorded, newest first
    timeLeft,       \* PlayPage: seconds left of the round
    running,        \* PlayPage: a round is in progress
    finished,       \* PlayPage: the round is over
    interval,       \* PlayPage: <<>> when no interval is set, else <<the parts of
                    \* its second that have passed since it was set or fired>>
    restoredResult, \* PlayPage: <<>> for null, else <<the GameResult restored>>
    showNameModal,  \* PlayPage: the name modal is open
    gameReady,      \* PlayPage: the flag gameReady
    dictLoaded,     \* PlayPage: the flag dictLoaded
    loadError,      \* PlayPage: loadError is not null
    response,       \* the outcome of fetch("/words.txt") and res.text()
    storage,        \* localStorage under STORAGE_PREFIX + puzzleId: <<>> when
                    \* there is no entry, else <<the GameResult stored>>
    roundStarted,   \* history: handleStart has started a round of this puzzle,
                    \* on the page as it is now or as it was before a reload
    puzzleId,       \* the identifier handed to hashStringToSeed
    genPc,          \* per run of the generation: its position
    hashH,          \* per run, hashStringToSeed: the local h
    hashI,          \* per run, hashStringToSeed: the loop counter i
    seed,           \* per run: the seed hashStringToSeed returned, or was given
    rngT,           \* per generator made by mulberry32: its captured t
    rngCycle,       \* the draws another generator returns in turn, over and over
                    \* (empty when the generators are those of mulberry32)
    drawCount,      \* per generator: the calls made to it
    lastDraw,       \* per generator: the numerator of the value its last call returned
    tiles,          \* per run, generateGrid: the local grid
    DUMMY_LEADERBOARD,  \* leaderboardData: the module's array of fixed entries
    player,         \* getLeaderboardWithPlayer: <<>> when no call is modelled,
                    \* else <<name, score and wordsFound the call is made with>>
    leaderboardEntries  \* getLeaderboardWithPlayer: the array returned (empty before)

dictVars == <<rawText, lines, lineIdx, words, prefixes>>

adjVars == <<argA, argB, adjacent>>

boardVars == <<DUMMY_LEADERBOARD, player, leaderboardEntries>>

genVars == <<puzzleId, genPc, hashH, hashI, seed, rngT, rngCycle, drawCount, lastDraw, tiles>>

solveVars == <<grid, results, startI, stack, allWords, startOrder, neighbourOrder>>

roundVars == <<selected, score, foundWords, submissions, timeLeft, running, finished,
               interval>>

pageVars == <<restoredResult, showNameModal, gameReady, dictLoaded, loadError,
              response, storage, roundStarted>>

gameVars == <<roundVars, pageVars>>

vars == <<pc, dictVars, adjVars, boardVars, genVars, solveVars, gameVars>>

---------------------------------------------------------------------------
(* Characters and strings *)

Lower == <<"a","b","c","d","e","f","g","h","i","j","k","l","m",
           "n","o","p","q","r","s","t","u","v","w","x","y","z">>

Upper == <<"A","B","C","D","E","F","G","H","I","J","K","L","M",
           "N","O","P","Q","R","S","T","U","V","W","X","Y","Z">>

\* the characters String.prototype.trim removes (those the inputs below use)
WhiteSpace == {" ", "\t", "\n", "\r"}

Range(s) == {s[i] : i \in 1..Len(s)}

IndexIn(seq, c) == CHOOSE i \in 1..Len(seq) : seq[i] = c

\* one character of String.prototype.toLowerCase
ToLowerChar(c) == IF c \in Range(Upper) THEN Lower[IndexIn(Upper, c)] ELSE c

\* one character against the class [a-z]
IsAZ(c) == c \in Range(Lower)

ToLowerCase(s) == [i \in 1..Len(s) |-> ToLowerChar(s[i])]

\* s.replace(/[^a-z]/g, "")
RECURSIVE StripNonAZ(_)
StripNonAZ(s) ==
    IF s = <<>> THEN <<>>
    ELSE IF IsAZ(Head(s)) THEN <<Head(s)>> \o StripNonAZ(Tail(s))
    ELSE StripNonAZ(Tail(s))

\* s.slice(0, i)
Slice(s, i) == SubSeq(s, 1, i)

RECURSIVE TrimStart(_)
TrimStart(s) ==
    IF s # <<>> /\ Head(s) \in WhiteSpace THEN TrimStart(Tail(s)) ELSE s

RECURSIVE TrimEnd(_)
TrimEnd(s) ==
    IF s # <<>> /\ s[Len(s)] \in WhiteSpace THEN TrimEnd(Slice(s, Len(s) - 1)) ELSE s

\* String.prototype.trim
Trim(s) == TrimEnd(TrimStart(s))

---------------------------------------------------------------------------
(* normalizeWord and buildDictionary *)

normalizeWord(raw) == StripNonAZ(ToLowerCase(raw))

\* rawText.split(/\r?\n/): cut at every "\n", which takes one "\r" before it along
RECURSIVE SplitFrom(_, _, _)
SplitFrom(text, i, cur) ==
    IF i > Len(text) THEN <<cur>>
    ELSE IF text[i] = "\n"
         THEN <<IF cur # <<>> /\ cur[Len(cur)] = "\r"
                THEN Slice(cur, Len(cur) - 1) ELSE cur>>
              \o SplitFrom(text, i + 1, <<>>)
         ELSE SplitFrom(text, i + 1, Append(cur, text[i]))

SplitLines(text) == SplitFrom(text, 1, <<>>)

\* the shortest normalized word buildDictionary keeps, and solveGrid reports
MinWordLen == 3

\* /^[a-z]+$/.test(w)
AllAZ(w) == w # <<>> /\ \A i \in 1..Len(w) : IsAZ(w[i])

\* mutant: the length test written as w.length <= 3
LineRejected_le(w) == (w = <<>> \/ Len(w) <= MinWordLen) \/ ~AllAZ(w)

\* the two `continue` tests of the loop body
LineRejected(w) == (w = <<>> \/ Len(w) < MinWordLen) \/ ~AllAZ(w)

\* mutant: the prefix loop written as i < w.length
PrefixesOf_short(w) == {Slice(w, i) : i \in 1..(Len(w) - 1)}

\* the inner for loop: prefixes.add(w.slice(0, i)) for i = 1..w.length
PrefixesOf(w) == {Slice(w, i) : i \in 1..Len(w)}

\* const lines = rawText.split(...), after the two empty Sets are made
BuildSplit ==
    /\ pc = "split"
    /\ lines' = SplitLines(rawText)
    /\ lineIdx' = 1
    /\ words' = {}
    /\ prefixes' = {}
    /\ pc' = "build"
    /\ UNCHANGED <<rawText, adjVars, boardVars, genVars, solveVars, gameVars>>

\* one iteration of `for (const line of lines)` that ends in a `continue`
BuildSkip ==
    /\ pc = "build"
    /\ lineIdx <= Len(lines)
    /\ LineRejected(normalizeWord(Trim(lines[lineIdx])))
    /\ lineIdx' = lineIdx + 1
    /\ UNCHANGED <<pc, rawText, lines, words, prefixes, adjVars, boardVars, genVars, solveVars, gameVars>>

\* one iteration that reaches words.add(w) and the prefix loop
BuildAdd ==
    /\ pc = "build"
    /\ lineIdx <= Len(lines)
    /\ LET w == normalizeWord(Trim(lines[lineIdx])) IN
         /\ ~LineRejected(w)
         /\ words' = words \cup {w}
         /\ prefixes' = prefixes \cup PrefixesOf(w)
    /\ lineIdx' = lineIdx + 1
    /\ UNCHANGED <<pc, rawText, lines, adjVars, boardVars, genVars, solveVars, gameVars>>

\* return { words, prefixes }
BuildReturn ==
    /\ pc = "build"
    /\ lineIdx > Len(lines)
    /\ pc' = "built"
    /\ UNCHANGED <<dictVars, adjVars, boardVars, genVars, solveVars, gameVars>>

---------------------------------------------------------------------------
(* indexToCoord and isAdjacent *)

\* the side of the square grid
GridSide == 4

\* the number of tiles of a grid
GridCells == 16

Positions == 0..(GridCells - 1)

indexToCoord(index) == [row |-> index \div GridSide, col |-> index % GridSide]

Abs(x) == IF x < 0 THEN -x ELSE x

Max(x, y) == IF x >= y THEN x ELSE y

\* mutant: the index itself compared, as in the conceptual dirs -5..5
isAdjacent_flat(a, b) == a # b /\ Abs(a - b) \in {1, 3, 4, 5}

\* mutant: every two tiles of one row taken as adjacent
isAdjacent_row(a, b) ==
    LET ac == indexToCoord(a)
        bc == indexToCoord(b)
        dr == Abs(ac.row - bc.row)
        dc == Abs(ac.col - bc.col)
    IN  IF dr = 0 /\ dc = 0 THEN FALSE ELSE dr = 0 \/ Max(dr, dc) = 1

isAdjacent(a, b) ==
    LET ac == indexToCoord(a)
        bc == indexToCoord(b)
        dr == Abs(ac.row - bc.row)
        dc == Abs(ac.col - bc.col)
    IN  IF dr = 0 /\ dc = 0 THEN FALSE ELSE Max(dr, dc) = 1

\* one call isAdjacent(a, b)
CallIsAdjacent ==
    /\ pc = "adjacent"
    /\ adjacent' = isAdjacent(argA, argB)
    /\ pc' = "adjacentDone"
    /\ UNCHANGED <<argA, argB, dictVars, boardVars, genVars, solveVars, gameVars>>

---------------------------------------------------------------------------
(* The leaderboard: the fixed entries and the player's *)

\* the array literal DUMMY_LEADERBOARD is initialised with
LeaderboardData ==
    << [name |-> "Reabetswe", score |-> 47, wordsFound |-> 18],
       [name |-> "Johan",     score |-> 42, wordsFound |-> 15],
       [name |-> "Martyna",   score |-> 38, wordsFound |-> 14],
       [name |-> "Eric",      score |-> 35, wordsFound |-> 12],
       [name |-> "Talisa",    score |-> 31, wordsFound |-> 11],
       [name |-> "Daphne",    score |-> 28, wordsFound |-> 10],
       [name |-> "Tyler",     score |-> 24, wordsFound |-> 9] >>

\* mutant: a comparator that looks at the score alone
compareEntries_scoreOnly(a, b) == b.score - a.score

\* the comparator handed to sort: by score descending, then by words found
\* descending
compareEntries(a, b) ==
    IF b.score # a.score THEN b.score - a.score ELSE b.wordsFound - a.wordsFound

\* x put into the sorted array arr, after the entries that do not follow it
RECURSIVE InsertEntry(_, _)
InsertEntry(arr, x) ==
    IF arr = <<>> THEN <<x>>
    ELSE IF compareEntries(arr[Len(arr)], x) <= 0 THEN Append(arr, x)
    ELSE Append(InsertEntry(SubSeq(arr, 1, Len(arr) - 1), x), arr[Len(arr)])

\* arr.sort(compareEntries): a stable sort
RECURSIVE SortEntries(_)
SortEntries(arr) ==
    IF arr = <<>> THEN <<>>
    ELSE InsertEntry(SortEntries(SubSeq(arr, 1, Len(arr) - 1)), arr[Len(arr)])

\* getLeaderboardWithPlayer: the fixed entries and the player's, copied into
\* a new array, sorted, and mapped to entries with rank and isCurrentPlayer
getLeaderboardWithPlayer(playerName, playerScore, playerWordsFound) ==
    LET allEntries == DUMMY_LEADERBOARD \o
                        <<[name |-> playerName, score |-> playerScore,
                           wordsFound |-> playerWordsFound]>>
        sorted == SortEntries(allEntries)
    IN  [index \in 1..Len(sorted) |->
            [name |-> sorted[index].name,
             score |-> sorted[index].score,
             wordsFound |-> sorted[index].wordsFound,
             rank |-> index,
             isCurrentPlayer |-> sorted[index].name = playerName]]

\* the names, scores and word counts a call is made with
PlayerNames == {"", "Dan", "Johan"}

MaxPlayerScore == 48

MaxPlayerWords == 19

\* one call of getLeaderboardWithPlayer, with the arguments held in player;
\* the sort works on the copy, and DUMMY_LEADERBOARD is read only
CallLeaderboard ==
    /\ pc = "leaderboard"
    /\ leaderboardEntries' =
          getLeaderboardWithPlayer(player[1].name, player[1].score, player[1].wordsFound)
    /\ DUMMY_LEADERBOARD' = DUMMY_LEADERBOARD
    /\ pc' = "leaderboardDone"
    /\ UNCHANGED <<player, dictVars, adjVars, genVars, solveVars, gameVars>>

---------------------------------------------------------------------------
(* solveGrid *)

\* 1 << n
Shl1(n) == 2 ^ n

\* mask & (1 << n), as a truth value
BitSet(mask, n) == (mask \div Shl1(n)) % 2 = 1

\* mask | (1 << n)
OrBit(mask, n) == IF BitSet(mask, n) THEN mask ELSE mask + Shl1(n)

\* Set.prototype.add on a Set kept in insertion order
SetAdd(set, x) == IF x \in Range(set) THEN set ELSE Append(set, x)

\* mutant: a tile contributes its first letter only
Frame_firstLetter(index, visitedMask, current) ==
    [index |-> index, visitedMask |-> visitedMask, current |-> current,
     nextWord |-> Append(current, Head(grid[index])),
     nextMask |-> OrBit(visitedMask, index),
     n |-> 0]

\* mutant: the position left out of the mask handed on
Frame_maskKept(index, visitedMask, current) ==
    [index |-> index, visitedMask |-> visitedMask, current |-> current,
     nextWord |-> current \o grid[index],
     nextMask |-> visitedMask,
     n |-> 0]

\* the frame of a dfs call that passed the prefix test: its parameters, its
\* locals nextWord and nextMask, and the counter n of its for loop
Frame(index, visitedMask, current) ==
    [index |-> index, visitedMask |-> visitedMask, current |-> current,
     nextWord |-> current \o grid[index],
     nextMask |-> OrBit(visitedMask, index),
     n |-> 0]

\* mutant: the prefix test left out
Continues_always(nextWord) == TRUE

\* mutant: the search pruned by the word set, not the prefix set
Continues_words(nextWord) == nextWord \in words

\* the prefix test that lets a dfs call go on
Continues(nextWord) == nextWord \in prefixes

\* mutant: the dictionary test left out
IsResult_anyPrefix(nextWord) == Len(nextWord) >= MinWordLen

\* mutant: the words of MinWordLen letters left out of results
IsResult_longer(nextWord) == Len(nextWord) > MinWordLen /\ nextWord \in words

\* the test that adds nextWord to results
IsResult(nextWord) == Len(nextWord) >= MinWordLen /\ nextWord \in words

\* dfs(index, visitedMask, current) up to its for loop: the stack and the
\* results it leaves, called with the stack stk
DfsEnter(index, visitedMask, current, stk) ==
    LET f == Frame(index, visitedMask, current) IN
    IF ~Continues(f.nextWord) THEN [stack |-> stk, results |-> results]
    ELSE [stack |-> Append(stk, f),
          results |-> IF IsResult(f.nextWord)
                      THEN SetAdd(results, f.nextWord) ELSE results]

\* the values of n at which the for loop of frame f still recurses
Eligible(f) ==
    {n \in Positions : /\ n >= f.n
                       /\ ~BitSet(f.nextMask, neighbourOrder[n])
                       /\ isAdjacent(f.index, neighbourOrder[n])}

Least(S) == CHOOSE x \in S : \A y \in S : x <= y

\* a.localeCompare(b) on strings of a-z: -1, 0 or 1
RECURSIVE localeCompare(_, _)
localeCompare(a, b) ==
    IF a = <<>> /\ b = <<>> THEN 0
    ELSE IF a = <<>> THEN -1
    ELSE IF b = <<>> THEN 1
    ELSE IF Head(a) = Head(b) THEN localeCompare(Tail(a), Tail(b))
    ELSE IF IndexIn(Lower, Head(a)) < IndexIn(Lower, Head(b)) THEN -1 ELSE 1

\* mutant: words of one length left unordered
compareWords_lengthOnly(a, b) == Len(b) - Len(a)

\* mutant: lengths compared as a.length - b.length
compareWords_ascending(a, b) ==
    IF Len(b) # Len(a) THEN Len(a) - Len(b) ELSE localeCompare(a, b)

\* the comparator handed to sort
compareWords(a, b) ==
    IF Len(b) # Len(a) THEN Len(b) - Len(a) ELSE localeCompare(a, b)

\* x put into the sorted array arr, after the entries that do not follow it
RECURSIVE InsertSorted(_, _)
InsertSorted(arr, x) ==
    IF arr = <<>> THEN <<x>>
    ELSE IF compareWords(arr[Len(arr)], x) <= 0 THEN Append(arr, x)
    ELSE Append(InsertSorted(Slice(arr, Len(arr) - 1), x), arr[Len(arr)])

\* arr.sort(compareWords): a stable sort
RECURSIVE SortWords(_)
SortWords(arr) ==
    IF arr = <<>> THEN <<>>
    ELSE InsertSorted(SortWords(Slice(arr, Len(arr) - 1)), arr[Len(arr)])

\* solveGrid is called: results = new Set(), the loop over i begins
SolveBegin ==
    /\ pc = "built"
    /\ pc' = "solve"
    /\ results' = <<>>
    /\ startI' = 0
    /\ stack' = <<>>
    /\ UNCHANGED <<grid, allWords, startOrder, neighbourOrder,
                   dictVars, adjVars, boardVars, genVars, gameVars>>

\* one iteration of `for (let i = 0; i < 16; i++) dfs(i, 0, "")`, up to the
\* for loop of the dfs call it makes
SolveStart ==
    /\ pc = "solve"
    /\ stack = <<>>
    /\ startI < GridCells
    /\ LET r == DfsEnter(startOrder[startI], 0, <<>>, stack) IN
         /\ stack' = r.stack
         /\ results' = r.results
    /\ startI' = startI + 1
    /\ UNCHANGED <<pc, grid, allWords, startOrder, neighbourOrder,
                   dictVars, adjVars, boardVars, genVars, gameVars>>

\* the innermost dfs call runs its for loop up to its next recursive call,
\* and that call up to its own for loop
DfsRecurse ==
    /\ pc = "solve"
    /\ stack # <<>>
    /\ LET f == stack[Len(stack)] IN
         /\ Eligible(f) # {}
         /\ LET n == Least(Eligible(f))
                 r == DfsEnter(neighbourOrder[n], f.nextMask, f.nextWord,
                               [stack EXCEPT ![Len(stack)].n = n + 1])
            IN  /\ stack' = r.stack
                /\ results' = r.results
    /\ UNCHANGED <<pc, grid, startI, allWords, startOrder, neighbourOrder,
                   dictVars, adjVars, boardVars, genVars, gameVars>>

\* the innermost dfs call finds no further neighbour and returns
DfsReturn ==
    /\ pc = "solve"
    /\ stack # <<>>
    /\ Eligible(stack[Len(stack)]) = {}
    /\ stack' = Slice(stack, Len(stack) - 1)
    /\ UNCHANGED <<pc, grid, results, startI, allWords, startOrder,
                   neighbourOrder, dictVars, adjVars, boardVars, genVars, gameVars>>

\* after the loop: allWords = Array.from(results).sort(...), and the return
SolveSort ==
    /\ pc = "solve"
    /\ stack = <<>>
    /\ startI = GridCells
    /\ allWords' = SortWords(results)
    /\ pc' = "solved"
    /\ UNCHANGED <<grid, results, startI, stack, startOrder, neighbourOrder,
                   dictVars, adjVars, boardVars, genVars, gameVars>>

---------------------------------------------------------------------------
(* 32-bit integers: a value v is the pair <<v div 2^16, v mod 2^16>> of its *)
(* two 16-bit halves, so that no intermediate result outgrows the integers *)
(* of the model checker. Every operator is taken modulo 2^32, which is     *)
(* what |0, >>>0 and Math.imul leave of a result                           *)

W16 == 65536

Pow2(k) == 2 ^ k

\* a ^ b on two halves
RECURSIVE Xor16(_, _)
Xor16(a, b) ==
    IF a = 0 THEN b
    ELSE IF b = 0 THEN a
    ELSE ((a + b) % 2) + 2 * Xor16(a \div 2, b \div 2)

\* a | b on two halves
RECURSIVE Or16(_, _)
Or16(a, b) ==
    IF a = 0 THEN b
    ELSE IF b = 0 THEN a
    ELSE (IF a % 2 = 1 \/ b % 2 = 1 THEN 1 ELSE 0) + 2 * Or16(a \div 2, b \div 2)

\* a ^ b
XorW(a, b) == <<Xor16(a[1], b[1]), Xor16(a[2], b[2])>>

\* a | b
OrW(a, b) == <<Or16(a[1], b[1]), Or16(a[2], b[2])>>

\* a + b
AddW(a, b) ==
    LET lo == a[2] + b[2]
    IN  <<(a[1] + b[1] + lo \div W16) % W16, lo % W16>>

\* a >>> k, for 0 < k < 32
ShrW(a, k) ==
    IF k >= 16 THEN <<0, a[1] \div Pow2(k - 16)>>
    ELSE <<a[1] \div Pow2(k), (a[1] % Pow2(k)) * Pow2(16 - k) + a[2] \div Pow2(k)>>

\* a << k, for 0 < k < 32
ShlW(a, k) ==
    IF k >= 16 THEN <<(a[2] % Pow2(32 - k)) * Pow2(k - 16), 0>>
    ELSE <<(a[1] % Pow2(16 - k)) * Pow2(k) + a[2] \div Pow2(16 - k),
           (a[2] % Pow2(16 - k)) * Pow2(k)>>

\* the product of two halves, as a 32-bit value
Mul16(x, y) ==
    LET p0 == x * (y % 256)
        p1 == x * (y \div 256)
    IN  AddW(<<p0 \div W16, p0 % W16>>, <<p1 \div 256, (p1 % 256) * 256>>)

\* Math.imul(a, b)
Imul(a, b) ==
    LET p == Mul16(a[2], b[2])
    IN  <<(p[1] + Mul16(a[1], b[2])[2] + Mul16(a[2], b[1])[2]) % W16, p[2]>>

\* a small number as a 32-bit value
SmallW(n) == <<0, n>>

---------------------------------------------------------------------------
(* hashStringToSeed, mulberry32 and generateGrid *)

\* str.charCodeAt(i) for the characters of the identifiers below
CharCode(c) ==
    CASE c = "-" -> 45
      [] c = "0" -> 48 [] c = "1" -> 49 [] c = "2" -> 50 [] c = "3" -> 51
      [] c = "4" -> 52 [] c = "5" -> 53 [] c = "6" -> 54 [] c = "7" -> 55
      [] c = "8" -> 56 [] c = "9" -> 57
      [] c = "a" -> 97 [] c = "v" -> 118
      [] c = "é" -> 233

\* 1779033703
HashStart == <<27145, 58983>>

\* 3432918353
HashMul == <<52382, 11601>>

\* 2246822507
HashMix1 == <<34283, 51819>>

\* 3266489909
HashMix2 == <<49842, 44597>>

\* let h = 1779033703 ^ str.length
HashInit(str) == XorW(HashStart, SmallW(Len(str)))

\* one iteration of the loop over the characters
HashChar(h, c) ==
    LET m == Imul(XorW(h, SmallW(CharCode(c))), HashMul)
    IN  OrW(ShlW(m, 13), ShrW(m, 19))

\* the three lines after the loop
HashFinish(h) ==
    LET h1 == Imul(XorW(h, ShrW(h, 16)), HashMix1)
        h2 == Imul(XorW(h1, ShrW(h1, 13)), HashMix2)
    IN  XorW(h2, ShrW(h2, 16))

\* 0x6d2b79f5
MulberryStep == <<27947, 31221>>

\* let t = seed || 1
\* mutant: let t = seed
SeedOrOne_asIs(s) == s

SeedOrOne(s) == IF s = <<0, 0>> THEN <<0, 1>> ELSE s

\* mutant: the sum left as it is, without | 0
NextT_unwrapped(t) ==
    LET lo == t[2] + MulberryStep[2]
    IN  <<t[1] + MulberryStep[1] + lo \div W16, lo % W16>>

\* t = (t + 0x6d2b79f5) | 0
NextT(t) == AddW(t, MulberryStep)

\* the numerator r of the value r / 4294967296 a call returns, from the t
\* the call has just set
DrawOf(t) ==
    LET r1 == Imul(XorW(t, ShrW(t, 15)), OrW(SmallW(1), t))
        r2 == XorW(AddW(r1, Imul(XorW(r1, ShrW(r1, 7)), OrW(SmallW(61), r1))), r1)
    IN  XorW(r2, ShrW(r2, 14))

LETTER_BAG ==
    << <<"e">>, <<"e">>, <<"e">>, <<"e">>, <<"e">>, <<"e">>,
       <<"a">>, <<"a">>, <<"a">>, <<"a">>,
       <<"i">>, <<"i">>, <<"i">>,
       <<"o">>, <<"o">>, <<"o">>,
       <<"n">>, <<"n">>,
       <<"r">>, <<"r">>, <<"r">>,
       <<"t">>, <<"t">>, <<"t">>,
       <<"l">>, <<"l">>,
       <<"s">>, <<"s">>,
       <<"d">>, <<"d">>,
       <<"g">>, <<"b">>, <<"c">>, <<"m">>, <<"p">>, <<"f">>, <<"h">>,
       <<"v">>, <<"w">>, <<"y">>, <<"k">>, <<"x">>, <<"z">> >>

\* quChance = 0.08, in hundredths
QuChancePercent == 8

\* rng() < quChance for the draw d / 2^32: d / 2^32 < 8 / 100, the double
\* 0.08 and 8 / 100 having no multiple of 2^-32 between them
BelowQuChance(d) == 100 * d[1] + (100 * d[2]) \div W16 < QuChancePercent * W16

\* mutant: Math.ceil in the place of Math.floor
BagIndex_ceil(d) ==
    (Len(LETTER_BAG) * d[1] + (Len(LETTER_BAG) * d[2]) \div W16) \div W16
        + (IF d = <<0, 0>> THEN 0 ELSE 1)

\* Math.floor(rng() * LETTER_BAG.length) for the draw d / 2^32
BagIndex(d) ==
    (Len(LETTER_BAG) * d[1] + (Len(LETTER_BAG) * d[2]) \div W16) \div W16

\* the runs of the generation: the page makes one; a second, independent one
\* is what the claims about repeated runs and separate generators compare
Runs == {1, 2}

\* mutant: t declared outside mulberry32, one for every generator
ClosureOf_shared(r) == 1

\* the t the generator of run r has captured: its own
ClosureOf(r) == r

\* the generators are those mulberry32 makes
Mulberry == rngCycle = <<>>

\* one call rng() of the generator of run r: the t it leaves and the
\* numerator of the value it returns
RngCall(r) ==
    IF Mulberry
    THEN LET t == NextT(rngT[ClosureOf(r)])
         IN  [t |-> t, value |-> DrawOf(t)]
    ELSE [t |-> rngT[ClosureOf(r)],
          value |-> rngCycle[(drawCount[r] % Len(rngCycle)) + 1]]

\* the variables a call rng() of run r sets
RngCalled(r, call) ==
    /\ rngT' = [rngT EXCEPT ![ClosureOf(r)] = call.t]
    /\ drawCount' = [drawCount EXCEPT ![r] = @ + 1]
    /\ lastDraw' = [lastDraw EXCEPT ![r] = call.value]

\* what grid.push(LETTER_BAG[idx]) pushes when idx is past the table
UndefinedTile == <<"undefined">>

\* LETTER_BAG[idx]
BagEntry(idx) ==
    IF idx + 1 \in DOMAIN LETTER_BAG THEN LETTER_BAG[idx + 1] ELSE UndefinedTile

\* hashStringToSeed(puzzleId) is called: let h = 1779033703 ^ str.length
HashBegin(r) ==
    /\ genPc[r] = "start"
    /\ hashH' = [hashH EXCEPT ![r] = HashInit(puzzleId)]
    /\ hashI' = [hashI EXCEPT ![r] = 0]
    /\ genPc' = [genPc EXCEPT ![r] = "hash"]
    /\ UNCHANGED <<puzzleId, seed, rngT, rngCycle, drawCount, lastDraw, tiles,
                   pc, dictVars, adjVars, boardVars, solveVars, gameVars>>

\* one iteration of its loop
HashStep(r) ==
    /\ genPc[r] = "hash"
    /\ hashI[r] < Len(puzzleId)
    /\ hashH' = [hashH EXCEPT ![r] = HashChar(@, puzzleId[hashI[r] + 1])]
    /\ hashI' = [hashI EXCEPT ![r] = @ + 1]
    /\ UNCHANGED <<puzzleId, genPc, seed, rngT, rngCycle, drawCount, lastDraw, tiles,
                   pc, dictVars, adjVars, boardVars, solveVars, gameVars>>

\* the lines after the loop, and the return
HashReturn(r) ==
    /\ genPc[r] = "hash"
    /\ hashI[r] = Len(puzzleId)
    /\ seed' = [seed EXCEPT ![r] = HashFinish(hashH[r])]
    /\ genPc' = [genPc EXCEPT ![r] = "seeded"]
    /\ UNCHANGED <<puzzleId, hashH, hashI, rngT, rngCycle, drawCount, lastDraw, tiles,
                   pc, dictVars, adjVars, boardVars, solveVars, gameVars>>

\* rng = mulberry32(seed), and generateGrid(rng) up to its loop
MakeRng(r) ==
    /\ genPc[r] = "seeded"
    /\ rngT' = [rngT EXCEPT ![ClosureOf(r)] = SeedOrOne(seed[r])]
    /\ tiles' = [tiles EXCEPT ![r] = <<>>]
    /\ genPc' = [genPc EXCEPT ![r] = "first"]
    /\ UNCHANGED <<puzzleId, hashH, hashI, seed, rngCycle, drawCount, lastDraw,
                   pc, dictVars, adjVars, boardVars, solveVars, gameVars>>

\* mutant: the `continue` left out, so that the iteration goes on to draw
\* and push a letter as well
GenQu_noContinue(r) ==
    /\ genPc[r] = "first"
    /\ Len(tiles[r]) < GridCells
    /\ LET call == RngCall(r) IN
         /\ BelowQuChance(call.value)
         /\ rngT' = [rngT EXCEPT ![ClosureOf(r)] = IF Mulberry THEN NextT(call.t) ELSE call.t]
         /\ drawCount' = [drawCount EXCEPT ![r] = @ + 2]
         /\ lastDraw' = [lastDraw EXCEPT ![r] = call.value]
         /\ tiles' = [tiles EXCEPT ![r] =
                         Append(Append(@, <<"q","u">>), BagEntry(BagIndex(call.value)))]
    /\ UNCHANGED <<puzzleId, genPc, hashH, hashI, seed, rngCycle,
                   pc, dictVars, adjVars, boardVars, solveVars, gameVars>>

\* an iteration of the loop of generateGrid whose draw is below quChance
GenQu(r) ==
    /\ genPc[r] = "first"
    /\ Len(tiles[r]) < GridCells
    /\ LET call == RngCall(r) IN
         /\ BelowQuChance(call.value)
         /\ RngCalled(r, call)
    /\ tiles' = [tiles EXCEPT ![r] = Append(@, <<"q","u">>)]
    /\ UNCHANGED <<puzzleId, genPc, hashH, hashI, seed, rngCycle,
                   pc, dictVars, adjVars, boardVars, solveVars, gameVars>>

\* an iteration whose draw is not below quChance, up to its second draw
GenFirst(r) ==
    /\ genPc[r] = "first"
    /\ Len(tiles[r]) < GridCells
    /\ LET call == RngCall(r) IN
         /\ ~BelowQuChance(call.value)
         /\ RngCalled(r, call)
    /\ genPc' = [genPc EXCEPT ![r] = "letter"]
    /\ UNCHANGED <<puzzleId, hashH, hashI, seed, rngCycle, tiles,
                   pc, dictVars, adjVars, boardVars, solveVars, gameVars>>

\* the second draw of such an iteration, and the push of the letter
GenLetter(r) ==
    /\ genPc[r] = "letter"
    /\ LET call == RngCall(r) IN
         /\ RngCalled(r, call)
         /\ tiles' = [tiles EXCEPT ![r] = Append(@, BagEntry(BagIndex(call.value)))]
    /\ genPc' = [genPc EXCEPT ![r] = "first"]
    /\ UNCHANGED <<puzzleId, hashH, hashI, seed, rngCycle,
                   pc, dictVars, adjVars, boardVars, solveVars, gameVars>>

\* return grid
GenReturn(r) ==
    /\ genPc[r] = "first"
    /\ Len(tiles[r]) = GridCells
    /\ genPc' = [genPc EXCEPT ![r] = "done"]
    /\ UNCHANGED <<puzzleId, hashH, hashI, seed, rngT, rngCycle, drawCount, lastDraw, tiles,
                   pc, dictVars, adjVars, boardVars, solveVars, gameVars>>

---------------------------------------------------------------------------
(* PlayPage: the handlers of a round *)

GAME_SECONDS == 60

\* the handlers run between the page's synchronous computations: while the
\* fetch of the dictionary is pending, and once the page holds the index,
\* the grid and the solver's result
HandlersRun == pc \in {"fetch", "page"}

\* grid, solver and validWordSet of the useMemo are not null
SolverReady == pc = "page"

\* validWordSet = new Set(s.allWords)
validWordSet == Range(allWords)

\* selected.map((i) => grid[i]).join("")
RECURSIVE JoinTiles(_)
JoinTiles(sel) ==
    IF sel = <<>> THEN <<>> ELSE grid[Head(sel)] \o JoinTiles(Tail(sel))

currentWord == IF ~SolverReady THEN <<>> ELSE JoinTiles(selected)

\* selected.indexOf(index), 1-based, 0 when absent
IndexOf(sel, index) ==
    IF index \in Range(sel) THEN Least({i \in 1..Len(sel) : sel[i] = index}) ELSE 0

\* mutant: the score left unclamped
ClampScore_none(x) == x

\* Math.max(0, x)
ClampScore(x) == Max(0, x)

\* mutant: no test for a word found before
Judge_again(word) ==
    IF word \in validWordSet THEN [delta |-> Len(word) - 2, status |-> "new"]
    ELSE [delta |-> -1, status |-> "invalid"]

\* mutant: the policy of the earlier revision: dictionary test first, and
\* no penalty for a word that is not in the dictionary
Judge_dictFirst(word) ==
    IF word \notin words THEN [delta |-> 0, status |-> "invalid"]
    ELSE IF word \in foundWords THEN [delta |-> -1, status |-> "duplicate"]
    ELSE [delta |-> Len(word) - 2, status |-> "new"]

\* delta and status of a word of at least 3 letters
Judge(word) ==
    IF word \in foundWords THEN [delta |-> -1, status |-> "duplicate"]
    ELSE IF word \in validWordSet THEN [delta |-> Len(word) - 2, status |-> "new"]
    ELSE [delta |-> -1, status |-> "invalid"]

\* the word shown for a submission with nothing selected
TooShortLabel == <<"(too short)">>

\* the object useSoundEffects returns is a new one at every render
SoundsChanged == TRUE

\* the effect of the timer after a render, the interval being current
\* before it: with running, finished or sounds changed, the interval of the
\* render before is cleared, and a new one is set when a round is running
IntervalAfter(current) ==
    IF ~(running' /\ ~finished') THEN <<>>
    ELSE IF SoundsChanged \/ running' # running \/ finished' # finished
         THEN <<0>>
         ELSE current

\* the effect of the timer after the render a handler causes
TimerEffect == interval' = IntervalAfter(interval)

\* Array.from(set): the elements, in an order the Set fixes
RECURSIVE ArrayFrom(_)
ArrayFrom(set) ==
    IF set = {} THEN <<>>
    ELSE LET x == CHOOSE y \in set : TRUE
         IN  <<x>> \o ArrayFrom(set \ {x})

\* the GameResult that JSON.stringify writes and JSON.parse reads back
GameResultOf(sc, found, subs) ==
    [score |-> sc, foundWords |-> ArrayFrom(found), submissions |-> subs]

\* mutant: the effect without its first line
PersistEffect_unguarded ==
    storage' = <<GameResultOf(score', foundWords', submissions')>>

\* the effect that persists the result after a render: nothing before the
\* round is finished
PersistEffect ==
    storage' = IF finished'
               THEN <<GameResultOf(score', foundWords', submissions')>>
               ELSE storage

\* the then callback of the dictionary load, and the render whose useMemo
\* result (computed above) the page now holds
PageReady ==
    /\ pc = "solved"
    /\ pc' = "page"
    /\ dictLoaded' = TRUE
    /\ UNCHANGED <<dictVars, adjVars, boardVars, genVars, solveVars, roundVars, restoredResult,
                   showNameModal, gameReady, loadError, response, storage,
                   roundStarted>>

\* the outcomes of the request: the file's text with status 200; a body with
\* an HTTP error status (fetch resolves all the same); no response at all
Responses == {"ok", "httpError", "networkError"}

\* fetch and res.text() have resolved, whatever the status of the response,
\* and buildDictionary is called with the text of the body
FetchResolve ==
    /\ pc = "fetch"
    /\ response \in {"ok", "httpError"}
    /\ pc' = "split"
    /\ UNCHANGED <<dictVars, adjVars, boardVars, genVars, solveVars, gameVars>>

\* fetch has rejected: the catch callback, whose empty Sets the useMemo of
\* the next render hands to solveGrid
FetchReject ==
    /\ pc = "fetch"
    /\ response = "networkError"
    /\ loadError' = TRUE
    /\ words' = {}
    /\ prefixes' = {}
    /\ pc' = "built"
    /\ UNCHANGED <<rawText, lines, lineIdx, adjVars, boardVars, genVars, solveVars, roundVars,
                   restoredResult, showNameModal, gameReady, dictLoaded,
                   response, storage, roundStarted>>

\* An item of localStorage is either the result the persist effect wrote (the
\* record stands for its JSON text) or a text that something else left under
\* the key: [text |-> t]
ForeignTexts ==
    { "",
      "{oops",
      "null",
      "7",
      "{}",
      "{\"foundWords\":[\"a\"]}",
      "{\"score\":\"7\",\"foundWords\":[]}",
      "{\"score\":7}",
      "{\"score\":7,\"foundWords\":\"ab\"}" }

IsForeign(item) == "text" \in DOMAIN item

\* !raw: the item is the empty string
EmptyRaw(item) == IsForeign(item) /\ item.text = ""

\* what JSON.parse(raw) and the tests on its value give: whether it throws,
\* whether the value is truthy, typeof value.score, Array.isArray(value.foundWords)
ParseOf(item) ==
    IF ~IsForeign(item)
    THEN [throws |-> FALSE, truthy |-> TRUE, scoreType |-> "number", wordsArray |-> TRUE]
    ELSE CASE item.text \in {"", "{oops"} ->
                [throws |-> TRUE, truthy |-> FALSE, scoreType |-> "undefined", wordsArray |-> FALSE]
           [] item.text = "null" ->
                [throws |-> FALSE, truthy |-> FALSE, scoreType |-> "undefined", wordsArray |-> FALSE]
           [] item.text = "7" ->
                [throws |-> FALSE, truthy |-> TRUE, scoreType |-> "undefined", wordsArray |-> FALSE]
           [] item.text = "{}" ->
                [throws |-> FALSE, truthy |-> TRUE, scoreType |-> "undefined", wordsArray |-> FALSE]
           [] item.text = "{\"foundWords\":[\"a\"]}" ->
                [throws |-> FALSE, truthy |-> TRUE, scoreType |-> "undefined", wordsArray |-> TRUE]
           [] item.text = "{\"score\":\"7\",\"foundWords\":[]}" ->
                [throws |-> FALSE, truthy |-> TRUE, scoreType |-> "string", wordsArray |-> TRUE]
           [] item.text = "{\"score\":7}" ->
                [throws |-> FALSE, truthy |-> TRUE, scoreType |-> "number", wordsArray |-> FALSE]
           [] item.text = "{\"score\":7,\"foundWords\":\"ab\"}" ->
                [throws |-> FALSE, truthy |-> TRUE, scoreType |-> "number", wordsArray |-> FALSE]

\* parsed && typeof parsed.score === 'number' && Array.isArray(parsed.foundWords),
\* inside the try
Restorable(item) ==
    LET parsed == ParseOf(item)
    IN  /\ ~parsed.throws
        /\ parsed.truthy
        /\ parsed.scoreType = "number"
        /\ parsed.wordsArray

\* the restore effect once the name modal is closed
RestoreEffect ==
    IF storage = <<>> \/ EmptyRaw(storage[1])
    THEN /\ restoredResult' = <<>>
         /\ finished' = FALSE
         /\ running' = FALSE
         /\ UNCHANGED <<score, foundWords, submissions>>
    ELSE IF Restorable(storage[1])
    THEN /\ restoredResult' = storage
         /\ finished' = TRUE
         /\ running' = FALSE
         /\ score' = storage[1].score
         /\ foundWords' = Range(storage[1].foundWords)
         /\ submissions' = storage[1].submissions
    ELSE /\ restoredResult' = <<>>
         /\ finished' = FALSE
         /\ UNCHANGED <<running, score, foundWords, submissions>>

\* Continue of the name modal on a page that takes an item it cannot read
\* for a round already played
NameContinue_locked ==
    /\ HandlersRun
    /\ showNameModal
    /\ showNameModal' = FALSE
    /\ gameReady' = TRUE
    /\ IF storage # <<>> /\ ~EmptyRaw(storage[1]) /\ ~Restorable(storage[1])
       THEN /\ restoredResult' = <<>>
            /\ finished' = TRUE
            /\ UNCHANGED <<running, score, foundWords, submissions>>
       ELSE RestoreEffect
    /\ PersistEffect
    /\ UNCHANGED <<pc, dictVars, adjVars, boardVars, genVars, solveVars, selected, timeLeft,
                   interval, dictLoaded, loadError, response, roundStarted>>

\* Continue of the name modal on a page that never looks for a stored result
NameContinue_fresh ==
    /\ HandlersRun
    /\ showNameModal
    /\ showNameModal' = FALSE
    /\ gameReady' = TRUE
    /\ restoredResult' = <<>>
    /\ finished' = FALSE
    /\ running' = FALSE
    /\ UNCHANGED <<score, foundWords, submissions>>
    /\ PersistEffect
    /\ UNCHANGED <<pc, dictVars, adjVars, boardVars, genVars, solveVars, selected, timeLeft,
                   interval, dictLoaded, loadError, response, roundStarted>>

\* Continue of the name modal, with the effect that follows the closing of
\* the modal: the check for a stored result of today's puzzle
NameContinue ==
    /\ HandlersRun
    /\ showNameModal
    /\ showNameModal' = FALSE
    /\ gameReady' = TRUE
    /\ RestoreEffect
    /\ PersistEffect
    /\ UNCHANGED <<pc, dictVars, adjVars, boardVars, genVars, solveVars, selected, timeLeft,
                   interval, dictLoaded, loadError, response, roundStarted>>

handleStart ==
    /\ HandlersRun
    /\ SolverReady /\ dictLoaded /\ gameReady
    /\ restoredResult = <<>>
    /\ ~(running \/ finished)
    /\ timeLeft' = GAME_SECONDS
    /\ score' = 0
    /\ foundWords' = {}
    /\ submissions' = <<>>
    /\ selected' = <<>>
    /\ finished' = FALSE
    /\ running' = TRUE
    /\ TimerEffect
    /\ roundStarted' = TRUE
    /\ UNCHANGED <<pc, dictVars, adjVars, boardVars, genVars, solveVars, restoredResult,
                   showNameModal, gameReady, dictLoaded, loadError, response,
                   storage>>

\* mutant: an earlier tile of the path is removed with everything after it
TileUndo_cutBefore(index) ==
    /\ HandlersRun
    /\ running /\ ~finished
    /\ SolverReady
    /\ IndexOf(selected, index) # 0
    /\ selected' = Slice(selected, IndexOf(selected, index) - 1)
    /\ UNCHANGED <<pc, dictVars, adjVars, boardVars, genVars, solveVars, score, foundWords,
                   submissions, timeLeft, running, finished, pageVars>>
    /\ TimerEffect

\* a click on a tile of the path: the last one is removed, an earlier one
\* trims the path back to it
TileUndo(index) ==
    /\ HandlersRun
    /\ running /\ ~finished
    /\ SolverReady
    /\ IndexOf(selected, index) # 0
    /\ selected' = IF IndexOf(selected, index) = Len(selected)
                   THEN Slice(selected, Len(selected) - 1)
                   ELSE Slice(selected, IndexOf(selected, index))
    /\ UNCHANGED <<pc, dictVars, adjVars, boardVars, genVars, solveVars, score, foundWords,
                   submissions, timeLeft, running, finished, pageVars>>
    /\ TimerEffect

\* mutant: a tile off the path extends it wherever it lies
TileSelect_anywhere(index) ==
    /\ HandlersRun
    /\ running /\ ~finished
    /\ SolverReady
    /\ IndexOf(selected, index) = 0
    /\ selected' = Append(selected, index)
    /\ UNCHANGED <<pc, dictVars, adjVars, boardVars, genVars, solveVars, score, foundWords,
                   submissions, timeLeft, running, finished, pageVars>>
    /\ TimerEffect

\* a click on a tile off the path: it starts the path, or extends it when
\* it is adjacent to the last tile
TileSelect(index) ==
    /\ HandlersRun
    /\ running /\ ~finished
    /\ SolverReady
    /\ IndexOf(selected, index) = 0
    /\ IF selected = <<>> THEN TRUE
       ELSE isAdjacent(selected[Len(selected)], index)
    /\ selected' = Append(selected, index)
    /\ UNCHANGED <<pc, dictVars, adjVars, boardVars, genVars, solveVars, score, foundWords,
                   submissions, timeLeft, running, finished, pageVars>>
    /\ TimerEffect

handleClear ==
    /\ HandlersRun
    /\ selected # <<>>
    /\ selected' = <<>>
    /\ UNCHANGED <<pc, dictVars, adjVars, boardVars, genVars, solveVars, score, foundWords,
                   submissions, timeLeft, running, finished, pageVars>>
    /\ TimerEffect

\* mutant: handleSubmit without its first line
SubmitShort_ungated ==
    /\ HandlersRun
    /\ SolverReady
    /\ Len(normalizeWord(currentWord)) < MinWordLen
    /\ submissions' =
          <<[word |-> IF currentWord = <<>> THEN TooShortLabel ELSE currentWord,
             delta |-> -1, status |-> "invalid"]>> \o submissions
    /\ score' = ClampScore(score - 1)
    /\ selected' = <<>>
    /\ UNCHANGED <<pc, dictVars, adjVars, boardVars, genVars, solveVars, foundWords,
                   timeLeft, running, finished, pageVars>>
    /\ TimerEffect

\* handleSubmit with a word of fewer than 3 letters
SubmitShort ==
    /\ HandlersRun
    /\ running /\ ~finished
    /\ SolverReady
    /\ Len(normalizeWord(currentWord)) < MinWordLen
    /\ submissions' =
          <<[word |-> IF currentWord = <<>> THEN TooShortLabel ELSE currentWord,
             delta |-> -1, status |-> "invalid"]>> \o submissions
    /\ score' = ClampScore(score - 1)
    /\ selected' = <<>>
    /\ UNCHANGED <<pc, dictVars, adjVars, boardVars, genVars, solveVars, foundWords,
                   timeLeft, running, finished, pageVars>>
    /\ TimerEffect

\* handleSubmit with a word of at least 3 letters
SubmitWord ==
    /\ HandlersRun
    /\ running /\ ~finished
    /\ SolverReady
    /\ LET word == normalizeWord(currentWord)
           j == Judge(word)
       IN  /\ Len(word) >= MinWordLen
           /\ score' = ClampScore(score + j.delta)
           /\ submissions' =
                 <<[word |-> word, delta |-> j.delta, status |-> j.status]>>
                 \o submissions
           /\ foundWords' = IF j.status = "new"
                            THEN foundWords \cup {word} ELSE foundWords
    /\ selected' = <<>>
    /\ UNCHANGED <<pc, dictVars, adjVars, boardVars, genVars, solveVars,
                   timeLeft, running, finished, pageVars>>
    /\ TimerEffect

---------------------------------------------------------------------------
(* handleSubmit of the earlier revision of the page, over the same grid    *)
(* and the same dictionary index                                           *)

\* delta and status the earlier revision gives a word of at least 3 letters,
\* found being its foundWords: dict.has first, then foundWords.has
EarlierJudge(word, found) ==
    IF word \notin words THEN [delta |-> 0, status |-> "invalid"]
    ELSE IF word \in found THEN [delta |-> -1, status |-> "duplicate"]
    ELSE [delta |-> Len(word) - 2, status |-> "new"]

\* currentWord of a submission, read back from the word recorded for it
TracedWord(entry) == IF entry.word = TooShortLabel THEN <<>> ELSE entry.word

\* score, foundWords and submissions of the earlier revision after handleStart
\* and the submissions of the traced words of subs, the newest first
RECURSIVE EarlierRun(_)
EarlierRun(subs) ==
    IF subs = <<>> THEN [score |-> 0, foundWords |-> {}, submissions |-> <<>>]
    ELSE LET before == EarlierRun(Tail(subs))
             traced == TracedWord(Head(subs))
             word   == normalizeWord(traced)
         IN  IF Len(word) < MinWordLen
             THEN [score |-> before.score,
                   foundWords |-> before.foundWords,
                   submissions |->
                      <<[word |-> IF traced = <<>> THEN TooShortLabel ELSE traced,
                         delta |-> 0, status |-> "invalid"]>>
                      \o before.submissions]
             ELSE LET j == EarlierJudge(word, before.foundWords)
                  IN  [score |-> IF j.delta # 0 \/ j.status # "invalid"
                                 THEN before.score + j.delta ELSE before.score,
                       foundWords |-> IF j.status = "new"
                                      THEN before.foundWords \cup {word}
                                      ELSE before.foundWords,
                       submissions |->
                          <<[word |-> word, delta |-> j.delta, status |-> j.status]>>
                          \o before.submissions]

---------------------------------------------------------------------------
(* The timer of a round *)

\* the parts of a second the model tells apart
TickParts == 2

\* a part of the second of the interval passes, not the last one
TimePasses ==
    /\ interval # <<>>
    /\ interval[1] < TickParts - 1
    /\ interval' = <<interval[1] + 1>>
    /\ UNCHANGED <<pc, dictVars, adjVars, boardVars, genVars, solveVars, selected, score,
                   foundWords, submissions, timeLeft, running, finished, pageVars>>

\* mutant: the round is over at prev <= 0
Expires_atZero(prev) == prev <= 0

\* prev <= 1 in the updater of setTimeLeft
Expires(prev) == prev <= 1

\* the last part of the second passes and the callback of the interval
\* runs, the interval starting on its next second; the render that follows
\* runs the effects
Tick ==
    /\ HandlersRun
    /\ interval # <<>>
    /\ interval[1] = TickParts - 1
    /\ IF Expires(timeLeft)
       THEN /\ running' = FALSE
            /\ finished' = TRUE
            /\ timeLeft' = 0
       ELSE /\ timeLeft' = timeLeft - 1
            /\ UNCHANGED <<running, finished>>
    /\ UNCHANGED <<pc, dictVars, adjVars, boardVars, genVars, solveVars, selected, score,
                   foundWords, submissions, restoredResult, showNameModal,
                   gameReady, dictLoaded, loadError, response, roundStarted>>
    /\ interval' = IntervalAfter(<<0>>)
    /\ PersistEffect

\* the page is loaded anew: every state of PlayPage is back at its initial
\* value, the dictionary is fetched again, and localStorage is what it was
Reload ==
    /\ HandlersRun
    /\ pc' = "fetch"
    /\ lines' = <<>>
    /\ lineIdx' = 1
    /\ words' = {}
    /\ prefixes' = {}
    /\ results' = <<>>
    /\ startI' = 0
    /\ stack' = <<>>
    /\ allWords' = <<>>
    /\ selected' = <<>>
    /\ score' = 0
    /\ foundWords' = {}
    /\ submissions' = <<>>
    /\ timeLeft' = GAME_SECONDS
    /\ running' = FALSE
    /\ finished' = FALSE
    /\ interval' = <<>>
    /\ restoredResult' = <<>>
    /\ showNameModal' = TRUE
    /\ gameReady' = FALSE
    /\ dictLoaded' = FALSE
    /\ loadError' = FALSE
    /\ UNCHANGED <<rawText, adjVars, boardVars, genVars, grid, startOrder, neighbourOrder,
                   response, storage, roundStarted>>

---------------------------------------------------------------------------
(* Inputs of buildDictionary: texts of at most MaxLines lines *)

MaxLines == 2

LineSamples ==
    { <<"c","a","t">>,                  \* kept as it is
      <<" ","C","a","t","s"," ">>,      \* trimmed and lowercased
      <<"\t","A","C","T">>,
      <<"i","t">>,                      \* too short
      <<"d","o","n","'","t">>,          \* punctuation inside: dont
      <<"a","-","b","1">>,              \* too short once stripped
      <<"q","u","a","!">>,
      <<>> }                            \* an empty line

LineSeparators == { <<"\n">>, <<"\r","\n">>, <<"\r">> }

RECURSIVE TextsOf(_)
TextsOf(k) ==
    IF k = 1 THEN LineSamples
    ELSE {t \o sep \o l : t \in TextsOf(k - 1), sep \in LineSeparators, l \in LineSamples}

DictTexts == UNION {TextsOf(k) : k \in 1..MaxLines}

\* the variables of buildDictionary before it is called
DictIdle ==
    /\ lines = <<>>
    /\ lineIdx = 1
    /\ words = {}
    /\ prefixes = {}

\* the variables of the leaderboard when no call is modelled
BoardIdle ==
    /\ DUMMY_LEADERBOARD = LeaderboardData
    /\ player = <<>>
    /\ leaderboardEntries = <<>>

\* the variables of isAdjacent when no call is modelled
AdjIdle ==
    /\ argA = 0
    /\ argB = 0
    /\ adjacent = FALSE

Filler == <<"z">>

\* the order of the two for loops of solveGrid: i = 0, 1, ..., 15
CodeOrder == [i \in Positions |-> i]

\* the variables of the generation when no run of it is modelled
GenIdle ==
    /\ puzzleId = <<>>
    /\ genPc = [r \in Runs |-> "off"]
    /\ hashH = [r \in Runs |-> <<0, 0>>]
    /\ hashI = [r \in Runs |-> 0]
    /\ seed = [r \in Runs |-> <<0, 0>>]
    /\ rngT = [r \in Runs |-> <<0, 0>>]
    /\ rngCycle = <<>>
    /\ drawCount = [r \in Runs |-> 0]
    /\ lastDraw = [r \in Runs |-> <<0, 0>>]
    /\ tiles = [r \in Runs |-> <<>>]

\* the variables of solveGrid before it is called
SolveIdle ==
    /\ results = <<>>
    /\ startI = 0
    /\ stack = <<>>
    /\ allWords = <<>>

\* the loops of solveGrid as the code has them
LoopsAsCoded ==
    /\ startOrder = CodeOrder
    /\ neighbourOrder = CodeOrder

\* the state of PlayPage when it is mounted, with nothing stored
PageMounted ==
    /\ selected = <<>>
    /\ score = 0
    /\ foundWords = {}
    /\ submissions = <<>>
    /\ timeLeft = GAME_SECONDS
    /\ running = FALSE
    /\ finished = FALSE
    /\ restoredResult = <<>>
    /\ showNameModal = TRUE
    /\ gameReady = FALSE
    /\ dictLoaded = FALSE
    /\ loadError = FALSE
    /\ storage = <<>>
    /\ interval = <<>>
    /\ roundStarted = FALSE

InitDict ==
    /\ pc = "split"
    /\ rawText \in DictTexts
    /\ DictIdle
    /\ AdjIdle
    /\ BoardIdle
    /\ GenIdle
    /\ grid = [i \in Positions |-> Filler]
    /\ SolveIdle
    /\ LoopsAsCoded
    /\ PageMounted
    /\ response = "ok"

NextDict == BuildSplit \/ BuildSkip \/ BuildAdd \/ BuildReturn

SpecDict == InitDict /\ [][NextDict]_vars

---------------------------------------------------------------------------
(* Inputs of isAdjacent: every pair of positions *)

InitAdjacent ==
    /\ pc = "adjacent"
    /\ rawText = <<>>
    /\ DictIdle
    /\ GenIdle
    /\ argA \in Positions
    /\ argB \in Positions
    /\ adjacent = FALSE
    /\ BoardIdle
    /\ grid = [i \in Positions |-> Filler]
    /\ SolveIdle
    /\ LoopsAsCoded
    /\ PageMounted
    /\ response = "ok"

NextAdjacent == CallIsAdjacent

SpecAdjacent == InitAdjacent /\ [][NextAdjacent]_vars

---------------------------------------------------------------------------
(* Inputs of solveGrid: a dictionary text, and a grid whose first row is   *)
(* one of a few rows and whose next VarCells tiles are drawn freely        *)

VarCells == 3

SolveTexts ==
    { <<"c","a","t","\n","c","a","t","s","\n","a","c","t","\n">>,
      <<"c","a","t","\n","c","a","t","s","\n","b","a","t","\n",
        "q","u","a","\n","t","a","t","\n","t","a","b","s","\n">> }

FirstRows ==
    { << <<"c">>, <<"a">>, <<"t">>, <<"s">> >>,
      << <<"a">>, <<"c">>, <<"t">>, <<"s">> >>,
      << <<"t">>, <<"a">>, <<"b">>, <<"s">> >> }

TileChoices == { <<"z">>, <<"b">>, <<"t">>, <<"q","u">> }

SolveGrids ==
    { [i \in Positions |->
          IF i < GridSide THEN row[i + 1]
          ELSE IF i - GridSide < VarCells THEN win[i - GridSide + 1]
          ELSE Filler]
      : row \in FirstRows, win \in [1..VarCells -> TileChoices] }

InitSolve ==
    /\ pc = "split"
    /\ rawText \in SolveTexts
    /\ DictIdle
    /\ AdjIdle
    /\ BoardIdle
    /\ GenIdle
    /\ grid \in SolveGrids
    /\ SolveIdle
    /\ LoopsAsCoded
    /\ PageMounted
    /\ response = "ok"

NextSolve ==
    \/ BuildSplit \/ BuildSkip \/ BuildAdd \/ BuildReturn
    \/ SolveBegin \/ SolveStart \/ DfsRecurse \/ DfsReturn \/ SolveSort

SpecSolve == InitSolve /\ [][NextSolve]_vars

---------------------------------------------------------------------------
(* solveGrid with its loops reordered: the search C15 compares the code's  *)
(* with. The loop over the starting positions and the loop over the        *)
(* neighbours each take the 16 positions in an order of LoopOrders         *)

LoopOrders ==
    { CodeOrder,
      [i \in Positions |-> GridCells - 1 - i],
      [i \in Positions |-> (5 * i + 3) % GridCells] }

\* the tiles after the first row that are drawn freely
ReorderedCells == 2

ReorderedGrids ==
    { [i \in Positions |->
          IF i < GridSide THEN row[i + 1]
          ELSE IF i - GridSide < ReorderedCells THEN win[i - GridSide + 1]
          ELSE Filler]
      : row \in FirstRows, win \in [1..ReorderedCells -> TileChoices] }

InitReordered ==
    /\ pc = "split"
    /\ rawText \in SolveTexts
    /\ DictIdle
    /\ AdjIdle
    /\ BoardIdle
    /\ GenIdle
    /\ grid \in ReorderedGrids
    /\ SolveIdle
    /\ startOrder \in LoopOrders
    /\ neighbourOrder \in LoopOrders
    /\ PageMounted
    /\ response = "ok"

SpecReordered == InitReordered /\ [][NextSolve]_vars

---------------------------------------------------------------------------
(* Inputs of a round: one dictionary text, a grid with the four tiles of   *)
(* its first row open to clicks, paths of at most MaxSelected tiles and    *)
(* at most MaxSubmissions submissions                                      *)

MaxSelected == 4

MaxSubmissions == 2

GameTexts ==
    { <<"c","a","t","\n","c","a","t","s","\n","a","c","t","\n",
        "q","u","a","\n","q","u","a","t","s","\n","t","a","t","\n">> }

GameGrids ==
    { [i \in Positions |-> IF i < GridSide THEN row[i + 1] ELSE Filler]
      : row \in { << <<"c">>, <<"a">>, <<"t">>, <<"s">> >>,
                  << <<"q","u">>, <<"a">>, <<"t">>, <<"s">> >> } }

ClickTiles == {0, 1, 2, 3}

InitGame ==
    /\ pc = "fetch"
    /\ rawText \in GameTexts
    /\ DictIdle
    /\ AdjIdle
    /\ BoardIdle
    /\ GenIdle
    /\ grid \in GameGrids
    /\ SolveIdle
    /\ LoopsAsCoded
    /\ PageMounted
    /\ response = "ok"

handleTileClick ==
    \E index \in ClickTiles :
        \/ TileUndo(index)
        \/ Len(selected) < MaxSelected /\ TileSelect(index)

handleSubmit ==
    /\ Len(submissions) < MaxSubmissions
    /\ (SubmitShort \/ SubmitWord)

NextGame ==
    \/ FetchResolve
    \/ BuildSplit \/ BuildSkip \/ BuildAdd \/ BuildReturn
    \/ SolveBegin \/ SolveStart \/ DfsRecurse \/ DfsReturn \/ SolveSort
    \/ PageReady
    \/ NameContinue
    \/ handleStart
    \/ handleTileClick
    \/ handleClear
    \/ handleSubmit

SpecGame == InitGame /\ [][NextGame]_vars

---------------------------------------------------------------------------
(* Inputs of a page whose dictionary source is unavailable: the request    *)
(* is answered with an HTTP error status and the body of an error page, or *)
(* it is not answered at all                                               *)

\* the body sent with the error status
ErrorBodies == { <<"N","o","t"," ","F","o","u","n","d","\n">> }

LoadGrids ==
    { [i \in Positions |-> IF i < GridSide THEN row[i + 1] ELSE Filler]
      : row \in { << <<"n">>, <<"o">>, <<"t">>, <<"s">> >> } }

InitLoad ==
    /\ pc = "fetch"
    /\ response \in {"httpError", "networkError"}
    /\ rawText \in (IF response = "httpError" THEN ErrorBodies ELSE {<<>>})
    /\ DictIdle
    /\ AdjIdle
    /\ BoardIdle
    /\ GenIdle
    /\ grid \in LoadGrids
    /\ SolveIdle
    /\ LoopsAsCoded
    /\ PageMounted

NextLoad ==
    \/ FetchResolve
    \/ FetchReject
    \/ BuildSplit \/ BuildSkip \/ BuildAdd \/ BuildReturn
    \/ SolveBegin \/ SolveStart \/ DfsRecurse \/ DfsReturn \/ SolveSort
    \/ PageReady
    \/ NameContinue
    \/ handleStart
    \/ handleTileClick
    \/ handleClear
    \/ handleSubmit

SpecLoad == InitLoad /\ [][NextLoad]_vars

---------------------------------------------------------------------------
(* Inputs of a round with its timer: a dictionary of one word, a grid      *)
(* whose first two tiles, qu and a, are open to clicks, and at most        *)
(* TimerSubmissions submissions; the page is mounted once                  *)

TimerSubmissions == 1

TimerTexts == { <<"q","u","a","\n">> }

TimerGrids ==
    { [i \in Positions |-> IF i = 0 THEN <<"q","u">>
                           ELSE IF i = 1 THEN <<"a">> ELSE Filler] }

TimerTiles == {0, 1}

InitTimer ==
    /\ pc = "fetch"
    /\ rawText \in TimerTexts
    /\ DictIdle
    /\ AdjIdle
    /\ BoardIdle
    /\ GenIdle
    /\ grid \in TimerGrids
    /\ SolveIdle
    /\ LoopsAsCoded
    /\ PageMounted
    /\ response = "ok"

TimerTileClick == \E index \in TimerTiles : TileUndo(index) \/ TileSelect(index)

TimerSubmit ==
    /\ Len(submissions) < TimerSubmissions
    /\ (SubmitShort \/ SubmitWord)

NextTimer ==
    \/ FetchResolve
    \/ BuildSplit \/ BuildSkip \/ BuildAdd \/ BuildReturn
    \/ SolveBegin \/ SolveStart \/ DfsRecurse \/ DfsReturn \/ SolveSort
    \/ PageReady
    \/ NameContinue
    \/ handleStart
    \/ TimerTileClick
    \/ handleClear
    \/ TimerSubmit
    \/ TimePasses
    \/ Tick

SpecTimer == InitTimer /\ [][NextTimer]_vars

\* time does not stop, and a callback that is due is run
SpecTimerFair == SpecTimer /\ WF_vars(TimePasses) /\ WF_vars(Tick)

---------------------------------------------------------------------------
(* The same round on a page that may be loaded anew at any time            *)

NextRound == NextTimer \/ Reload

SpecRound == InitTimer /\ [][NextRound]_vars

---------------------------------------------------------------------------
(* The same page over a localStorage that holds, under the key of today's  *)
(* puzzle, a text the page did not write                                   *)

InitStored ==
    /\ pc = "fetch"
    /\ rawText \in TimerTexts
    /\ DictIdle
    /\ AdjIdle
    /\ BoardIdle
    /\ GenIdle
    /\ grid \in TimerGrids
    /\ SolveIdle
    /\ LoopsAsCoded
    /\ selected = <<>>
    /\ score = 0
    /\ foundWords = {}
    /\ submissions = <<>>
    /\ timeLeft = GAME_SECONDS
    /\ running = FALSE
    /\ finished = FALSE
    /\ restoredResult = <<>>
    /\ showNameModal = TRUE
    /\ gameReady = FALSE
    /\ dictLoaded = FALSE
    /\ loadError = FALSE
    /\ \E t \in ForeignTexts : storage = << [text |-> t] >>
    /\ interval = <<>>
    /\ roundStarted = FALSE
    /\ response = "ok"

SpecStored == InitStored /\ [][NextRound]_vars

---------------------------------------------------------------------------
(* Inputs of getLeaderboardWithPlayer: every name of PlayerNames, every     *)
(* score up to MaxPlayerScore and every word count up to MaxPlayerWords    *)

InitBoard ==
    /\ pc = "leaderboard"
    /\ rawText = <<>>
    /\ DictIdle
    /\ AdjIdle
    /\ DUMMY_LEADERBOARD = LeaderboardData
    /\ \E playerName \in PlayerNames, playerScore \in 0..MaxPlayerScore,
          playerWordsFound \in 0..MaxPlayerWords :
          player = <<[name |-> playerName, score |-> playerScore,
                      wordsFound |-> playerWordsFound]>>
    /\ leaderboardEntries = <<>>
    /\ GenIdle
    /\ grid = [i \in Positions |-> Filler]
    /\ SolveIdle
    /\ LoopsAsCoded
    /\ PageMounted
    /\ response = "ok"

NextBoard == CallLeaderboard

SpecBoard == InitBoard /\ [][NextBoard]_vars

---------------------------------------------------------------------------
(* Inputs of generateGrid alone: a generator that returns the draws of a   *)
(* cycle of at most MaxCycle values, over and over                         *)

MaxCycle == 3

\* numerators of draws: 0; the last one below 0.08 and the first one not
\* below; 1/2; the last one below 1
DrawSamples ==
    { <<0, 0>>, <<5242, 57671>>, <<5242, 57672>>, <<32768, 0>>, <<65535, 65535>> }

RECURSIVE CyclesOf(_)
CyclesOf(k) ==
    IF k = 1 THEN {<<d>> : d \in DrawSamples}
    ELSE {Append(c, d) : c \in CyclesOf(k - 1), d \in DrawSamples}

Cycles == UNION {CyclesOf(k) : k \in 1..MaxCycle}

\* no page, no dictionary, no search
PageIdle ==
    /\ pc = "off"
    /\ rawText = <<>>
    /\ DictIdle
    /\ AdjIdle
    /\ BoardIdle
    /\ grid = [i \in Positions |-> Filler]
    /\ SolveIdle
    /\ LoopsAsCoded
    /\ PageMounted
    /\ response = "ok"

InitGenerate ==
    /\ PageIdle
    /\ puzzleId = <<>>
    /\ genPc = [r \in Runs |-> IF r = 1 THEN "first" ELSE "off"]
    /\ hashH = [r \in Runs |-> <<0, 0>>]
    /\ hashI = [r \in Runs |-> 0]
    /\ seed = [r \in Runs |-> <<0, 0>>]
    /\ rngT = [r \in Runs |-> <<0, 0>>]
    /\ rngCycle \in Cycles
    /\ drawCount = [r \in Runs |-> 0]
    /\ lastDraw = [r \in Runs |-> <<0, 0>>]
    /\ tiles = [r \in Runs |-> <<>>]

NextGenerate == \E r \in Runs : GenQu(r) \/ GenFirst(r) \/ GenLetter(r) \/ GenReturn(r)

SpecGenerate == InitGenerate /\ [][NextGenerate]_vars

---------------------------------------------------------------------------
(* Inputs of the generation of a puzzle: two runs, of an identifier each   *)
(* hashes, or of seeds given to mulberry32 as they are, their steps        *)
(* interleaved in every way                                                *)

PuzzleIds ==
    { <<"2","0","2","4","-","0","1","-","0","1","-","v","1">>,
      <<"a">> }

\* 0 and 1; 2^31 - 1 and 2^31; 2^32 - 0x6d2b79f5, which the first call
\* turns into 0; 2^32 - 1
SeedSamples ==
    { <<0, 0>>, <<0, 1>>, <<32767, 65535>>, <<32768, 0>>, <<37588, 34315>>,
      <<65535, 65535>> }

\* the seeds given to the two runs: the same, or 0 and 1
SeedPairs == {<<s, s>> : s \in SeedSamples} \cup {<< <<0, 0>>, <<0, 1>> >>}

InitPuzzle ==
    /\ PageIdle
    /\ hashH = [r \in Runs |-> <<0, 0>>]
    /\ hashI = [r \in Runs |-> 0]
    /\ rngT = [r \in Runs |-> <<0, 0>>]
    /\ rngCycle = <<>>
    /\ drawCount = [r \in Runs |-> 0]
    /\ lastDraw = [r \in Runs |-> <<0, 0>>]
    /\ tiles = [r \in Runs |-> <<>>]
    /\ \/ /\ puzzleId \in PuzzleIds
          /\ genPc = [r \in Runs |-> "start"]
          /\ seed = [r \in Runs |-> <<0, 0>>]
       \/ /\ puzzleId = <<>>
          /\ genPc = [r \in Runs |-> "seeded"]
          /\ \E sp \in SeedPairs : seed = [r \in Runs |-> sp[r]]

NextPuzzle ==
    \E r \in Runs :
        \/ HashBegin(r) \/ HashStep(r) \/ HashReturn(r)
        \/ MakeRng(r)
        \/ GenQu(r) \/ GenFirst(r) \/ GenLetter(r) \/ GenReturn(r)

SpecPuzzle == InitPuzzle /\ [][NextPuzzle]_vars

---------------------------------------------------------------------------
(* Inputs of hashStringToSeed alone: the empty string, a letter, a         *)
(* character outside ASCII and the identifier of a day, each hashed by two *)
(* runs                                                                    *)

SeedIds ==
    { <<>>,
      <<"a">>,
      <<"é">>,
      <<"2","0","2","4","-","0","1","-","0","1","-","v","1">> }

InitSeed ==
    /\ PageIdle
    /\ puzzleId \in SeedIds
    /\ genPc = [r \in Runs |-> "start"]
    /\ hashH = [r \in Runs |-> <<0, 0>>]
    /\ hashI = [r \in Runs |-> 0]
    /\ seed = [r \in Runs |-> <<0, 0>>]
    /\ rngT = [r \in Runs |-> <<0, 0>>]
    /\ rngCycle = <<>>
    /\ drawCount = [r \in Runs |-> 0]
    /\ lastDraw = [r \in Runs |-> <<0, 0>>]
    /\ tiles = [r \in Runs |-> <<>>]

NextSeed == \E r \in Runs : HashBegin(r) \/ HashStep(r) \/ HashReturn(r)

SpecSeed == InitSeed /\ [][NextSeed]_vars

---------------------------------------------------------------------------
(* The dictionary index: what the claims say, stated without the operators *)
(* of the model above                                                      *)

\* p is an initial segment of w
IsPrefixOf(p, w) == Len(p) <= Len(w) /\ \A i \in 1..Len(p) : p[i] = w[i]

\* the first k characters of w
FirstK(w, k) == [i \in 1..k |-> w[i]]

\* the positions of the line feeds of a text
LineFeeds(text) == {i \in 1..Len(text) : text[i] = "\n"}

\* the lines of a text under the LF / CRLF convention, as a set: each starts
\* at 1 or after a line feed, and runs up to the next line feed, less the
\* carriage return that precedes that line feed
LinesOfText(text) ==
    { LET ends == {j \in LineFeeds(text) : j >= s}
          e == IF ends = {} THEN Len(text) + 1
               ELSE CHOOSE j \in ends : \A k \in ends : j <= k
          cut == IF e <= Len(text) /\ e - 1 >= s /\ text[e - 1] = "\r"
                 THEN e - 2 ELSE e - 1
      IN  SubSeq(text, s, cut)
      : s \in {1} \cup {i + 1 : i \in LineFeeds(text)} }

\* the letter a character stands for once lowercased, if any
LetterOf(c) ==
    IF \E i \in 1..26 : Lower[i] = c THEN <<c>>
    ELSE IF \E i \in 1..26 : Upper[i] = c
         THEN <<Lower[CHOOSE i \in 1..26 : Upper[i] = c]>>
         ELSE <<>>

\* a line lowercased, with every character outside a-z deleted
RECURSIVE LettersOfLine(_)
LettersOfLine(l) ==
    IF l = <<>> THEN <<>>
    ELSE LettersOfLine(SubSeq(l, 1, Len(l) - 1)) \o LetterOf(l[Len(l)])

AcceptedWords(text) ==
    {w \in {LettersOfLine(l) : l \in LinesOfText(text)} : Len(w) >= 3}

\* C9 (state part): the index buildDictionary returns holds every non-empty
\* prefix of every word, words is a subset of prefixes, and prefixes is
\* closed under taking non-empty prefixes
PrefixSuperset ==
    pc = "built" =>
        /\ \A w \in words : \A k \in 1..Len(w) : FirstK(w, k) \in prefixes
        /\ words \subseteq prefixes
        /\ \A p \in prefixes : \A k \in 1..Len(p) : FirstK(p, k) \in prefixes

\* C9 (step part): no step of the build removes an entry from either set
NoEntryRemoved == words \subseteq words' /\ prefixes \subseteq prefixes'

\* C9: prefix superset of the returned index, and the sets only grow
C9_PrefixSuperset == [](PrefixSuperset) /\ [][NoEntryRemoved]_vars

\* a returned index with two words that share no first letter
C9_Witness ==
    /\ pc = "built"
    /\ Cardinality(words) = 2
    /\ Cardinality({FirstK(w, 1) : w \in words}) = 2
    /\ Cardinality(prefixes) >= 7

\* C10: the returned words are exactly the lines, lowercased and stripped to
\* a-z, of length >= 3; each is made of a-z only; and every member of
\* prefixes is a non-empty prefix of a returned word
C10_DictionaryAcceptance ==
    pc = "built" =>
        /\ words = AcceptedWords(rawText)
        /\ \A w \in words :
              Len(w) >= 3 /\ \A i \in 1..Len(w) : \E j \in 1..26 : Lower[j] = w[i]
        /\ \A p \in prefixes : p # <<>> /\ \E w \in words : IsPrefixOf(p, w)

\* a text with a line that is rejected and a line that is kept only after
\* lowercasing and stripping
C10_Witness ==
    /\ pc = "built"
    /\ Len(lines) = 2
    /\ words = {<<"d","o","n","t">>}
    /\ <<"i","t">> \in Range(lines)

\* a word as the dictionary keeps it: at least 3 characters, all of a-z
CleanWord(w) ==
    Len(w) >= 3 /\ \A i \in 1..Len(w) : \E j \in 1..26 : Lower[j] = w[i]

\* the text is the words a and b with the separator sep between them
TwoWordsText(a, sep, b) == CleanWord(a) /\ CleanWord(b) /\ rawText = a \o sep \o b

\* the ways to cut off the first i - 1 characters and the n that follow
TextCuts == {c \in (1..Len(rawText)) \X {1, 2} : c[1] + c[2] - 1 <= Len(rawText)}

\* C11: two valid words separated by LF, by CRLF or by a bare CR are both in
\* the returned words, and their concatenation is not
C11_NewlineConventions ==
    pc = "built" =>
        \A c \in TextCuts :
            LET a == SubSeq(rawText, 1, c[1] - 1)
                sep == SubSeq(rawText, c[1], c[1] + c[2] - 1)
                b == SubSeq(rawText, c[1] + c[2], Len(rawText))
            IN  (sep \in {<<"\n">>, <<"\r","\n">>, <<"\r">>} /\ TwoWordsText(a, sep, b))
                    => a \in words /\ b \in words /\ a \o b \notin words

\* the part of C11 the code meets: the same for LF and CRLF alone
C11_LineFeedConventions ==
    pc = "built" =>
        \A c \in TextCuts :
            LET a == SubSeq(rawText, 1, c[1] - 1)
                sep == SubSeq(rawText, c[1], c[1] + c[2] - 1)
                b == SubSeq(rawText, c[1] + c[2], Len(rawText))
            IN  (sep \in {<<"\n">>, <<"\r","\n">>} /\ TwoWordsText(a, sep, b))
                    => a \in words /\ b \in words /\ a \o b \notin words


---------------------------------------------------------------------------
(* The adjacency relation and the solver: what the claims say *)

\* row and column of a position, by the decomposition index = 4 * row + col
RowOf(i) == CHOOSE r \in 0..3 : \E c \in 0..3 : i = 4 * r + c

ColOf(i) == CHOOSE c \in 0..3 : \E r \in 0..3 : i = 4 * r + c

Dist(x, y) == IF x >= y THEN x - y ELSE y - x

\* Chebyshev distance exactly 1
Chebyshev1(a, b) ==
    /\ a # b
    /\ Dist(RowOf(a), RowOf(b)) <= 1
    /\ Dist(ColOf(a), ColOf(b)) <= 1

\* C8: isAdjacent(a, b) is true exactly for two different positions at
\* Chebyshev distance 1; it is symmetric, false on (a, a), and false across
\* the edges of the grid (3 and 4, 0 and 3, 0 and 12)
C8_Adjacency ==
    pc = "adjacentDone" =>
        /\ adjacent = Chebyshev1(argA, argB)
        /\ adjacent = isAdjacent(argB, argA)
        /\ argA = argB => ~adjacent
        /\ {argA, argB} \in {{3, 4}, {0, 3}, {0, 12}} => ~adjacent

\* the call isAdjacent(3, 4): neighbours as indices, not on the grid
C8_Witness == pc = "adjacentDone" /\ argA = 3 /\ argB = 4 /\ ~adjacent

\* the tile at position p is an initial segment of the letters w
TileFits(p, w) ==
    Len(grid[p]) <= Len(w) /\ \A i \in 1..Len(grid[p]) : grid[p][i] = w[i]

\* the letters w are spelled by a path that starts at p and avoids the
\* positions of used
RECURSIVE SpelledFrom(_, _, _)
SpelledFrom(p, used, w) ==
    /\ TileFits(p, w)
    /\ LET rest == SubSeq(w, Len(grid[p]) + 1, Len(w)) IN
         \/ rest = <<>>
         \/ \E q \in Positions \ (used \cup {p}) :
                Chebyshev1(p, q) /\ SpelledFrom(q, used \cup {p}, rest)

\* w has a witness path: pairwise distinct positions, each next to the one
\* before, whose tiles spell w
Traceable(w) == w # <<>> /\ \E p \in Positions : SpelledFrom(p, {}, w)

\* C1: every word the solver reports, in results and in allWords, is a
\* dictionary word of at least 3 letters that has a witness path
C1_SolverSoundness ==
    \A w \in Range(results) \cup Range(allWords) :
        w \in words /\ Len(w) >= 3 /\ Traceable(w)

\* a finished solve that reports a word whose proper prefix of 3 letters,
\* traceable as well, is not a word, and that leaves out a dictionary word
C1_Witness ==
    /\ pc = "solved"
    /\ <<"c","a","t">> \in Range(allWords)
    /\ <<"t","a","b","s">> \in words
    /\ Traceable(<<"t","a","b">>)
    /\ \E w \in words : ~Traceable(w)

\* C2: every dictionary word that has a witness path is in allWords
C2_SolverCompleteness ==
    pc = "solved" => \A w \in words : Traceable(w) => w \in Range(allWords)

\* a finished solve that found a 4-letter word, reached through three
\* proper prefixes, and a 3-letter one
C2_Witness ==
    /\ pc = "solved"
    /\ <<"c","a","t","s">> \in Range(allWords)
    /\ <<"t","a","t">> \in Range(allWords)

ScenarioWords == {<<"c","a","t">>, <<"c","a","t","s">>, <<"a","c","t">>}

\* the grid of the scenario: c, a, t, s in the first row, and no letter of
\* the three words on the other 12 tiles
ScenarioGrid ==
    /\ grid[0] = <<"c">> /\ grid[1] = <<"a">>
    /\ grid[2] = <<"t">> /\ grid[3] = <<"s">>
    /\ \A i \in 4..15 : Range(grid[i]) \cap {"c","a","t","s"} = {}

\* C3 as stated: the scenario returns cats, act, cat
C3_ScenarioAsStated ==
    (pc = "solved" /\ words = ScenarioWords /\ ScenarioGrid) =>
        allWords = << <<"c","a","t","s">>, <<"a","c","t">>, <<"c","a","t">> >>

\* C3 amended: the scenario returns cats, cat; act has no witness path, the
\* positions 0 and 2 of its c and t not being adjacent
C3_Scenario ==
    (pc = "solved" /\ words = ScenarioWords /\ ScenarioGrid) =>
        /\ allWords = << <<"c","a","t","s">>, <<"c","a","t">> >>
        /\ ~Traceable(<<"a","c","t">>)

C3_Witness ==
    /\ pc = "solved" /\ words = ScenarioWords /\ ScenarioGrid
    /\ \E i \in 4..15 : grid[i] # Filler

\* x comes before y among words of one length
LexLess(x, y) ==
    \E k \in 1..Len(x) :
        /\ \A i \in 1..(k - 1) : x[i] = y[i]
        /\ \E i, j \in 1..26 : Lower[i] = x[k] /\ Lower[j] = y[k] /\ i < j

QuTile == <<"q","u">>

\* C7: the path of the nested calls never holds a position twice, a path of
\* k tiles with m qu tiles has spelled k + m letters, and a dictionary word
\* of 3 letters spelled by a qu tile and a neighbour is in allWords
C7_QuTile ==
    /\ \A i, j \in 1..Len(stack) : i # j => stack[i].index # stack[j].index
    /\ \A k \in 1..Len(stack) :
          Len(stack[k].nextWord)
            = k + Cardinality({i \in 1..k : grid[stack[i].index] = QuTile})
    /\ pc = "solved" =>
          \A p, q \in Positions :
              (grid[p] = QuTile /\ Chebyshev1(p, q) /\ grid[p] \o grid[q] \in words)
                  => /\ Len(grid[p] \o grid[q]) >= 3
                     /\ grid[p] \o grid[q] \in Range(allWords)

\* qua found on the 2-tile path qu, a
C7_Witness ==
    /\ pc = "solved"
    /\ <<"q","u","a">> \in Range(allWords)
    /\ \E p \in Positions : grid[p] = QuTile /\ Chebyshev1(p, 1) /\ grid[1] = <<"a">>

\* the positions whose bit is set in a mask
BitsOf(mask) == {n \in 0..15 : (mask \div (2 ^ n)) % 2 = 1}

\* the masks along the chain of nested calls: the outermost call is given
\* the empty mask, every call is given the mask its caller made, and makes
\* its own by adding the one bit of its position, which was not set
MaskChain ==
    \A k \in 1..Len(stack) :
        LET f == stack[k] IN
        /\ f.visitedMask = (IF k = 1 THEN 0 ELSE stack[k - 1].nextMask)
        /\ f.current = (IF k = 1 THEN <<>> ELSE stack[k - 1].nextWord)
        /\ f.index \notin BitsOf(f.visitedMask)
        /\ BitsOf(f.nextMask) = BitsOf(f.visitedMask) \cup {f.index}
        /\ f.nextMask < 2 ^ 16
        /\ Cardinality(BitsOf(f.nextMask)) = k

\* a call that stays on the stack keeps its position, masks and strings
\* whatever the calls below it do: only its loop counter moves
SiblingsApart ==
    \A k \in 1..Len(stack) :
        k <= Len(stack') =>
            stack'[k] = [stack[k] EXCEPT !.n = stack'[k].n]

\* how far the search has come: the counter of the loop over the starting
\* positions, then the loop counter of every nested call, outermost first,
\* and 17 at the levels below the innermost call
SearchRank ==
    <<startI>> \o [k \in 1..17 |-> IF k <= Len(stack) THEN stack[k].n ELSE 17]

\* r comes before q in the lexicographic order of the ranks
RankBefore(r, q) ==
    \E k \in 1..18 : r[k] < q[k] /\ \A i \in 1..(k - 1) : r[i] = q[i]

\* the ranks are bounded: no counter exceeds 16, no level lies below 16
RankBounded == startI <= 16 /\ \A k \in 1..Len(stack) : stack[k].n <= 16

\* C13: every run of solveGrid returns, for every step inside it moves the
\* rank of the search forward and the ranks are bounded, so that a run has
\* finitely many steps; along the nested calls the mask gains one new bit
\* per level, no position is held twice and the depth is at most 16; and
\* the mask and string a call hands to a later neighbour are those it
\* handed to the earlier ones
C13_SolverTermination ==
    /\ [](RankBounded)
    /\ [][(pc = "solve" /\ pc' = "solve") => RankBefore(SearchRank, SearchRank')]_vars
    /\ [](MaskChain /\ Len(stack) <= 16)
    /\ [](\A i, j \in 1..Len(stack) : i # j => stack[i].index # stack[j].index)
    /\ [][SiblingsApart]_vars

\* four nested calls spelling cats, the outer three back in their loops
\* after earlier neighbours were explored
C13_Witness ==
    /\ pc = "solve"
    /\ Len(stack) = 4
    /\ stack[4].nextWord = <<"c","a","t","s">>
    /\ stack[1].n > 0 /\ stack[2].n > 0
    /\ Cardinality(BitsOf(stack[4].nextMask)) = 4


\* the step made a call dfs(q, ...) from the innermost call, or from the
\* loop over the starting positions, and the call returned at once
CallAbandoned ==
    /\ pc = "solve" /\ pc' = "solve"
    /\ Len(stack') = Len(stack)
    /\ \/ stack = <<>> /\ startI' = startI + 1
       \/ stack # <<>> /\ stack'[Len(stack)].n > stack[Len(stack)].n

\* the string of the call such a step made
AbandonedString ==
    IF stack = <<>> THEN grid[startI]
    ELSE stack[Len(stack)].nextWord \o grid[stack'[Len(stack)].n - 1]

\* C14: a call goes on to its neighbours, and adds to results, only with a
\* string that is in prefixes: the calls on the stack all hold such a
\* string, a step adds to results only the string of the call it has just
\* put there, and a call that returns at once leaves results as they were;
\* every string the search goes on with is a prefix of a dictionary word
C14_PruningInvariant ==
    /\ [](\A k \in 1..Len(stack) :
            /\ stack[k].nextWord \in prefixes
            /\ \E w \in words : IsPrefixOf(stack[k].nextWord, w))
    /\ [](\A w \in Range(results) : w \in prefixes)
    /\ [][(pc = "solve" /\ results' # results) =>
            /\ Len(stack') = Len(stack) + 1
            /\ results' = Append(results, stack'[Len(stack')].nextWord)]_vars
    /\ [][CallAbandoned => (results' = results /\ AbandonedString \notin prefixes)]_vars

\* the call with the string ca is in its loop, and a neighbour it called
\* with a string outside prefixes has returned at once
C14_Witness ==
    /\ pc = "solve"
    /\ Len(stack) = 2
    /\ stack[2].nextWord = <<"c","a">>
    /\ \E q \in 0..15 :
          /\ q < stack[2].n
          /\ Chebyshev1(stack[2].index, q)
          /\ q \notin BitsOf(stack[2].nextMask)
          /\ stack[2].nextWord \o grid[q] \notin prefixes


\* the words solveGrid has to report: a matter of the grid and the index
Findable == {w \in words : Len(w) >= 3 /\ Traceable(w)}

\* the arrangements of the entries of a sequence without repetitions
RECURSIVE Arrangements(_)
Arrangements(seq) ==
    IF seq = <<>> THEN {<<>>}
    ELSE UNION { {<<seq[i]>> \o rest :
                    rest \in Arrangements([k \in 1..(Len(seq) - 1) |->
                                              IF k < i THEN seq[k] ELSE seq[k + 1]])}
                 : i \in 1..Len(seq) }

\* C15: whatever the order of the loop over the starting positions and of
\* the loop over the neighbours, solveGrid returns the one list the grid and
\* the index determine: the findable words, each once, longer first and
\* alphabetical within a length; and the results sorted from any other
\* order of insertion, as a merge of separate searches would leave them,
\* give that list too
C15_OrderIndependence ==
    pc = "solved" =>
        /\ Range(allWords) = Findable
        /\ Len(allWords) = Cardinality(Findable)
        /\ \A i \in 1..(Len(allWords) - 1) :
              LET x == allWords[i]
                  y == allWords[i + 1]
              IN  Len(x) > Len(y) \/ (Len(x) = Len(y) /\ LexLess(x, y))
        /\ \A arr \in Arrangements(results) : SortWords(arr) = allWords

\* the loops reordered: bat is found before tabs, which the code's order
\* finds first, and the list returned is the same
C15_Witness ==
    /\ pc = "solved"
    /\ startOrder # [i \in 0..15 |-> i]
    /\ neighbourOrder # [i \in 0..15 |-> i]
    /\ results = << <<"b","a","t">>, <<"t","a","b","s">> >>
    /\ allWords = << <<"t","a","b","s">>, <<"b","a","t">> >>


---------------------------------------------------------------------------
(* The generation of the grid: what the claims say *)

\* the numerator d of a draw d / 2^32 that lies in [0, 1)
IsDraw(d) == d[1] \in 0..65535 /\ d[2] \in 0..65535

\* the whole part of x * d / 2^16, for a small x
ScaledBy(x, d) == x * d[1] + (x * d[2]) \div 65536

\* the k with k <= 43 * d / 2^32 < k + 1
TableIndex(d) ==
    CHOOSE k \in 0..43 : k * 65536 <= ScaledBy(43, d) /\ ScaledBy(43, d) < (k + 1) * 65536

\* d / 2^32 < 0.08
BelowThreshold(d) == ScaledBy(100, d) < 8 * 65536

\* a tile generateGrid may push
GoodTile(tile) == tile = <<"q","u">> \/ \E k \in 1..43 : tile = LETTER_BAG[k]

\* the step pushes a tile in run r
TilePushed(r) == Len(tiles'[r]) = Len(tiles[r]) + 1

\* the number of qu tiles of a grid
QuCount(g) == Cardinality({i \in 1..Len(g) : g[i] = <<"q","u">>})

\* C16: with draws in [0, 1), generateGrid never pushes undefined: every
\* tile is qu or an entry of LETTER_BAG, the index computed for a letter is
\* within 0..42, and the grid returned has exactly 16 tiles
C16_GenerationCannotFail ==
    /\ [](\A r \in Runs :
            /\ IsDraw(lastDraw[r])
            /\ Len(tiles[r]) <= 16
            /\ \A i \in 1..Len(tiles[r]) : GoodTile(tiles[r][i])
            /\ genPc[r] = "done" => Len(tiles[r]) = 16)
    /\ [][\A r \in Runs :
            (TilePushed(r) /\ genPc[r] = "letter") =>
                /\ TableIndex(lastDraw'[r]) \in 0..42
                /\ tiles'[r] = Append(tiles[r], LETTER_BAG[TableIndex(lastDraw'[r]) + 1])]_vars

\* a grid returned from the largest draw throughout: 16 tiles z, the last
\* entry of the table
C16_Witness ==
    /\ genPc[1] = "done"
    /\ lastDraw[1] = <<65535, 65535>>
    /\ \A i \in 1..16 : tiles[1][i] = <<"z">>

\* C17: the tiles are pushed in the order of the positions; a position takes
\* one draw and, when that draw is below 0.08, the tile qu and no other
\* draw, else one more draw, which selects the letter; so that the draws
\* taken are two for every letter and one for every qu, 32 less the number
\* of qu tiles in the end, between 16 and 32
C17_DrawProtocol ==
    /\ [](\A r \in Runs :
            /\ drawCount[r] = 2 * Len(tiles[r]) - QuCount(tiles[r])
                                + (IF genPc[r] = "letter" THEN 1 ELSE 0)
            /\ genPc[r] = "letter" => ~BelowThreshold(lastDraw[r])
            /\ genPc[r] = "done" =>
                  /\ drawCount[r] = 32 - QuCount(tiles[r])
                  /\ drawCount[r] \in 16..32)
    /\ [][\A r \in Runs :
            /\ tiles'[r] = tiles[r] \/ (TilePushed(r) /\ SubSeq(tiles'[r], 1, Len(tiles[r])) = tiles[r])
            /\ drawCount'[r] \in {drawCount[r], drawCount[r] + 1}
            /\ (TilePushed(r) /\ genPc[r] = "first") =>
                  /\ drawCount'[r] = drawCount[r] + 1
                  /\ BelowThreshold(lastDraw'[r])
                  /\ tiles'[r][Len(tiles'[r])] = <<"q","u">>
            /\ (TilePushed(r) /\ genPc[r] = "letter") =>
                  /\ drawCount'[r] = drawCount[r] + 1
                  /\ tiles'[r][Len(tiles'[r])] # <<"q","u">>
            /\ (drawCount'[r] # drawCount[r] /\ ~TilePushed(r)) =>
                  /\ genPc[r] = "first" /\ genPc'[r] = "letter"
                  /\ ~BelowThreshold(lastDraw'[r])]_vars

\* a grid returned from draws that are below 0.08 and not below it in turn:
\* 8 qu tiles and 8 letters, from 24 draws
C17_Witness ==
    /\ genPc[1] = "done"
    /\ QuCount(tiles[1]) = 8
    /\ drawCount[1] = 24
    /\ tiles[1][1] = <<"q","u">> /\ tiles[1][2] # <<"q","u">>

\* how far run r has come
ProgressOf(r) == <<genPc[r], hashI[r], drawCount[r], Len(tiles[r])>>

\* what run r holds
LocalOf(r) == <<hashH[r], seed[r], rngT[r], lastDraw[r], tiles[r]>>

\* the two runs were given the same identifier, or the same seed
SameInput == puzzleId # <<>> \/ seed[1] = seed[2]

\* hashStringToSeed has returned in run r
Seeded(r) == genPc[r] \in {"seeded", "first", "letter", "done"}

\* the step is not one of run r
OtherRunStep(r) == \E q \in Runs \ {r} : <<ProgressOf(q), LocalOf(q)>>' # <<ProgressOf(q), LocalOf(q)>>

\* the grid of the identifier 2024-01-01-v1
GridOfNewYear ==
    << <<"c">>, <<"q","u">>, <<"o">>, <<"y">>, <<"b">>, <<"q","u">>, <<"e">>, <<"b">>,
       <<"i">>, <<"a">>, <<"r">>, <<"q","u">>, <<"f">>, <<"o">>, <<"n">>, <<"o">> >>

\* C18: two runs given the same identifier compute the same seed and the
\* same grid of 16 tiles: at equal progress they hold equal values, however
\* their steps are interleaved; and the generator of a run is its own: a
\* step of the other run, a draw from the other generator included, leaves
\* what the run holds as it was
C18_GenerationDeterminism ==
    /\ [](SameInput =>
            /\ ProgressOf(1) = ProgressOf(2) => LocalOf(1) = LocalOf(2)
            /\ (Seeded(1) /\ Seeded(2)) => seed[1] = seed[2]
            /\ (genPc[1] = "done" /\ genPc[2] = "done") =>
                  (tiles[1] = tiles[2] /\ Len(tiles[1]) = 16))
    /\ [][\A r \in Runs :
            OtherRunStep(r) => <<ProgressOf(r), LocalOf(r)>>' = <<ProgressOf(r), LocalOf(r)>>]_vars

\* the first run has returned the grid of 2024-01-01-v1 while the second,
\* whose draws were taken in between, is at its 11th draw with the same
\* tiles so far
C18_Witness ==
    /\ puzzleId = <<"2","0","2","4","-","0","1","-","0","1","-","v","1">>
    /\ genPc[1] = "done"
    /\ tiles[1] = GridOfNewYear
    /\ genPc[2] = "letter"
    /\ drawCount[2] = 11
    /\ tiles[2] = SubSeq(GridOfNewYear, 1, Len(tiles[2]))

\* (s + k * 0x6d2b79f5) mod 2^32, in halves
StateAfter(s, k) ==
    LET lo == s[2] + k * 31221
        hi == s[1] + k * 27947 + lo \div 65536
    IN  <<hi % 65536, lo % 65536>>

\* a generator exists in run r
HasGenerator(r) == genPc[r] \in {"first", "letter", "done"}

\* C19 as stated: every draw is r / 2^32 with 0 <= r <= 2^32 - 1, and the
\* state after k draws is (seed + k * 0x6d2b79f5) mod 2^32
C19_GeneratorRangeAsStated ==
    \A r \in Runs :
        /\ IsDraw(lastDraw[r])
        /\ HasGenerator(r) => rngT[r] = StateAfter(seed[r], drawCount[r])

\* C19 amended: the same, with the seed 0 taken as 1
C19_GeneratorRange ==
    \A r \in Runs :
        /\ IsDraw(lastDraw[r])
        /\ HasGenerator(r) =>
              rngT[r] = StateAfter(IF seed[r] = <<0, 0>> THEN <<0, 1>> ELSE seed[r],
                                   drawCount[r])

\* the seed 2^32 - 0x6d2b79f5: the addition of the first draw wraps to 0;
\* the other generator of that seed has made the 31 draws of its grid
C19_Witness ==
    /\ seed[1] = <<37588, 34315>>
    /\ drawCount[1] = 1
    /\ rngT[1] = <<0, 0>>
    /\ seed[2] = <<37588, 34315>>
    /\ genPc[2] = "done"
    /\ drawCount[2] = 31

\* the first run has the seed 0 and the second the seed 1
ZeroAndOne == puzzleId = <<>> /\ seed[1] = <<0, 0>> /\ seed[2] = <<0, 1>>

\* the grid of the seed 1
GridOfOne ==
    << <<"e">>, <<"z">>, <<"i">>, <<"g">>, <<"z">>, <<"t">>, <<"n">>, <<"a">>,
       <<"e">>, <<"c">>, <<"a">>, <<"q","u">>, <<"l">>, <<"i">>, <<"d">>, <<"c">> >>

\* C20: the generator of the seed 0 returns the draws of the generator of
\* the seed 1, one for one, and generateGrid the same grid from both; a
\* seed that is not 0 is the state its generator starts from
C20_SeedZero ==
    /\ [](ZeroAndOne =>
            /\ (HasGenerator(1) /\ HasGenerator(2) /\ drawCount[1] = drawCount[2]) =>
                  (rngT[1] = rngT[2] /\ lastDraw[1] = lastDraw[2])
            /\ (HasGenerator(1) /\ HasGenerator(2) /\ ProgressOf(1) = ProgressOf(2)) =>
                  tiles[1] = tiles[2]
            /\ (genPc[1] = "done" /\ genPc[2] = "done") => tiles[1] = tiles[2])
    /\ [](\A r \in Runs :
            (HasGenerator(r) /\ drawCount[r] = 0 /\ seed[r] # <<0, 0>>) => rngT[r] = seed[r])

\* both grids returned, the one of the seed 0 being the grid of the seed 1
C20_Witness ==
    /\ ZeroAndOne
    /\ genPc[1] = "done" /\ genPc[2] = "done"
    /\ tiles[1] = GridOfOne
    /\ drawCount[1] = 31

---------------------------------------------------------------------------
(* The derivation of the seed: what the claims say.  The reference         *)
(* computation is carried out on numbers written as their 32 binary        *)
(* digits, digit i (of weight 2^i) at i, with the multiplication of the    *)
(* school: column by column, the carry taken along                         *)

BitIdx == 0..31

\* the number n < 2^31
WordOfNat(n) == [i \in BitIdx |-> IF i > 30 THEN 0 ELSE (n \div 2 ^ i) % 2]

\* the number of 8 hexadecimal digits, the most significant first
WordOfHex(hx) == [i \in BitIdx |-> (hx[8 - i \div 4] \div 2 ^ (i % 4)) % 2]

\* the number the model holds as two halves
WordOfHalves(v) ==
    [i \in BitIdx |-> IF i < 16 THEN (v[2] \div 2 ^ i) % 2
                      ELSE (v[1] \div 2 ^ (i - 16)) % 2]

RefXor(a, b) == [i \in BitIdx |-> (a[i] + b[i]) % 2]

RefShr(a, k) == [i \in BitIdx |-> IF i + k \in BitIdx THEN a[i + k] ELSE 0]

RefRotl(a, k) == [i \in BitIdx |-> a[(i + 32 - k) % 32]]

\* the digits of column i of the product a * b, added up
RECURSIVE ColumnSum(_, _, _, _)
ColumnSum(a, b, i, j) ==
    IF j > i THEN 0 ELSE a[j] * b[i - j] + ColumnSum(a, b, i, j + 1)

\* the digits of a * b from column i on, as a sequence
RECURSIVE ProductFrom(_, _, _, _)
ProductFrom(a, b, i, carry) ==
    IF i > 31 THEN <<>>
    ELSE LET total == ColumnSum(a, b, i, 0) + carry
         IN  <<total % 2>> \o ProductFrom(a, b, i + 1, total \div 2)

\* (a * b) mod 2^32
RefMul(a, b) ==
    LET digits == ProductFrom(a, b, 0, 0)
    IN  [i \in BitIdx |-> digits[i + 1]]

\* 1779033703 = 0x6a09e667
RefStart == WordOfHex(<<6, 10, 0, 9, 14, 6, 6, 7>>)

\* 3432918353 = 0xcc9e2d51
RefMultiplier == WordOfHex(<<12, 12, 9, 14, 2, 13, 5, 1>>)

\* 2246822507 = 0x85ebca6b
RefMix1 == WordOfHex(<<8, 5, 14, 11, 12, 10, 6, 11>>)

\* 3266489909 = 0xc2b2ae35
RefMix2 == WordOfHex(<<12, 2, 11, 2, 10, 14, 3, 5>>)

\* for each byte b in order: h = rotl13(((h XOR b) * 3432918353) mod 2^32)
RECURSIVE RefLoop(_, _)
RefLoop(acc, bytes) ==
    IF bytes = <<>> THEN acc
    ELSE RefLoop(RefRotl(RefMul(RefXor(acc, WordOfNat(Head(bytes))), RefMultiplier), 13),
                 Tail(bytes))

\* the reference computation on a sequence of bytes
RefSeed(bytes) ==
    LET h0 == RefLoop(RefXor(RefStart, WordOfNat(Len(bytes))), bytes)
        h1 == RefMul(RefXor(h0, RefShr(h0, 16)), RefMix1)
        h2 == RefMul(RefXor(h1, RefShr(h1, 13)), RefMix2)
    IN  RefXor(h2, RefShr(h2, 16))

\* the bytes of a character in UTF-8
Utf8Of(c) == IF c = "é" THEN <<195, 169>> ELSE <<CharCode(c)>>

\* the bytes of a string
RECURSIVE BytesOf(_)
BytesOf(str) == IF str = <<>> THEN <<>> ELSE Utf8Of(Head(str)) \o BytesOf(Tail(str))

\* the UTF-16 code units of a string, which are what length and charCodeAt
\* count and return
CodeUnitsOf(str) == [i \in 1..Len(str) |-> CharCode(str[i])]

\* an integer in [0, 2^32 - 1], as two halves
IsWord(v) == v[1] \in 0..(W16 - 1) /\ v[2] \in 0..(W16 - 1)

\* C21: for every string, the empty one included, hashStringToSeed returns
\* an integer in [0, 2^32 - 1] equal to the reference computation, all of it
\* modulo 2^32, on the byte length and the bytes of the string
C21_SeedDerivation ==
    \A r \in Runs :
        genPc[r] = "seeded" =>
            /\ IsWord(seed[r])
            /\ WordOfHalves(seed[r]) = RefSeed(BytesOf(puzzleId))

\* what holds in the place of C21: the same, on the number of UTF-16 code
\* units and the code units of the string
C21_SeedOfCodeUnits ==
    \A r \in Runs :
        genPc[r] = "seeded" =>
            /\ IsWord(seed[r])
            /\ WordOfHalves(seed[r]) = RefSeed(CodeUnitsOf(puzzleId))

---------------------------------------------------------------------------
(* The round of the day: what the claims say *)

\* C22: for one puzzle id, over any sequence of Start clicks, timer ticks,
\* tile clicks, submissions and page reloads, handleStart starts a round
\* only when none has been started before
C22_OneRoundPerDay == [][handleStart => ~roundStarted]_vars

\* a tick takes one second off timeLeft, and ends the round exactly when it
\* leaves none
TickCountsDown ==
    [][Tick => (timeLeft' = timeLeft - 1 /\ (finished' <=> timeLeft' = 0))]_vars

\* C23: the round is 2 minutes long: handleStart sets timeLeft to 120
\* seconds, and the round finishes after 120 ticks of one second, each
\* taking one second off
C23_TwoMinuteRound ==
    /\ [][handleStart => timeLeft' = 2 * 60]_vars
    /\ TickCountsDown

\* what holds in the place of C23: the round is GAME_SECONDS long
C23_RoundOfGameSeconds ==
    /\ [][handleStart => timeLeft' = GAME_SECONDS]_vars
    /\ TickCountsDown

---------------------------------------------------------------------------
(* The selection of tiles: what the claims say *)

\* C24: in every reachable state, after any sequence of tile clicks, Clear
\* and Submit, selected holds pairwise distinct grid indices in 0..15, and
\* every two consecutive ones are adjacent under isAdjacent
C24_SelectionIsPath ==
    \A i \in 1..Len(selected) :
        /\ selected[i] \in 0..15
        /\ \A j \in 1..Len(selected) : i # j => selected[i] # selected[j]
        /\ i < Len(selected) => isAdjacent(selected[i], selected[i + 1])

\* a round is running with a path of four tiles selected
C24_Witness ==
    /\ running
    /\ selected = <<0, 1, 2, 3>>

\* the position (1-based) of a tile in a selection that holds it
PlaceOf(sel, index) == CHOOSE p \in 1..Len(sel) : sel[p] = index

\* what a click on the tile index makes of the selection sel
ClickOutcome(sel, index) ==
    IF sel = <<>> THEN <<index>>
    ELSE IF \A p \in 1..Len(sel) : sel[p] # index
         THEN IF Chebyshev1(sel[Len(sel)], index) THEN sel \o <<index>> ELSE sel
         ELSE IF sel[Len(sel)] = index
              THEN SubSeq(sel, 1, Len(sel) - 1)
              ELSE SubSeq(sel, 1, (PlaceOf(sel, index) - 1) + 1)

\* C25: while a round is running, a click on a tile makes of the selection:
\* the tile alone when the selection is empty; the selection with the tile
\* appended when the tile is unselected and adjacent to the last one; the
\* selection as it is when the tile is unselected and not adjacent; the
\* selection without its last tile when the tile is the last one; the first
\* k + 1 tiles when the tile is the one at position k (0-based)
C25_TileClickSemantics ==
    [][\A index \in ClickTiles :
          (TileUndo(index) \/ TileSelect(index)) =>
              /\ running /\ ~finished
              /\ selected' = ClickOutcome(selected, index)]_vars

\* a round is running with a path of three tiles selected, from the third
\* tile of the row back to the first
C25_Witness ==
    /\ running
    /\ selected = <<2, 1, 0>>

---------------------------------------------------------------------------
(* The words found: what the claims say *)

\* the submissions recorded with status new
NewEntries == {i \in 1..Len(submissions) : submissions[i].status = "new"}

\* the words recorded with status new
NewWords == {submissions[i].word : i \in NewEntries}

\* the sum of len(w) - 2 over the words of a set
RECURSIVE PointsOf(_)
PointsOf(set) ==
    IF set = {} THEN 0
    ELSE LET w == CHOOSE x \in set : TRUE
         IN  (Len(w) - 2) + PointsOf(set \ {w})

\* C26: in every state of a round started by handleStart, foundWords is a
\* subset of the solver's solution set for the grid, no word is recorded
\* with status new more than once, foundWords is the set of the words
\* recorded with status new, and score is at most the sum of len(w) - 2 over
\* foundWords, which is at most that sum over the whole solution set
C26_FoundWordBookkeeping ==
    (running \/ finished) =>
        /\ foundWords \subseteq Range(allWords)
        /\ \A i, j \in NewEntries : submissions[i].word = submissions[j].word => i = j
        /\ foundWords = NewWords
        /\ score <= PointsOf(foundWords)
        /\ PointsOf(foundWords) <= PointsOf(Range(allWords))

\* two words of the grid have been found in a running round
C26_Witness ==
    /\ running
    /\ foundWords = {<<"c","a","t">>, <<"c","a","t","s">>}
    /\ score = 3

---------------------------------------------------------------------------
(* The timer of the round: what the claims say *)

\* C27: once running is true, the state with running false and finished
\* true is eventually reached, whatever the player does: no sequence of
\* tile clicks, Clear and Submit, with the renders they cause, keeps the
\* ticks from coming and timeLeft from reaching 0
C27_RoundAlwaysEnds == running ~> (~running /\ finished)

\* C28: timeLeft changes only by the ticks of the timer, while running and
\* not finished (a page loaded anew starts from its initial value); a tick
\* with timeLeft > 1 takes exactly 1 off; a tick with timeLeft <= 1 sets
\* timeLeft = 0, running = false and finished = true together; in every
\* state 0 <= timeLeft <= GAME_SECONDS, and running and finished are never
\* both true
C28_TimerSteps ==
    /\ [][timeLeft' # timeLeft => (Tick /\ running /\ ~finished) \/ Reload]_vars
    /\ [][Tick => IF timeLeft > 1
                  THEN timeLeft' = timeLeft - 1 /\ running' /\ ~finished'
                  ELSE timeLeft' = 0 /\ ~running' /\ finished']_vars
    /\ [](timeLeft \in 0..GAME_SECONDS)
    /\ [](~(running /\ finished))

\* the last tick has ended the round
C28_Witness ==
    /\ finished
    /\ ~running
    /\ timeLeft = 0
    /\ interval = <<>>

---------------------------------------------------------------------------
(* The gates of the handlers: what the claims say *)

\* what handleSubmit keeps of a round
Tally == <<score, foundWords, submissions>>

\* C29: when running is false or finished is true, handleTileClick and
\* handleSubmit leave selected, score, foundWords and submissions as they
\* are (what changes them then is Clear, a start, a restore or a reload);
\* handleSubmit changes nothing either while the solver's result is not
\* available; and a round is running only with the grid generated, the
\* dictionary load completed and gameReady true
C29_InteractionGated ==
    /\ [][(\E index \in Positions : TileUndo(index) \/ TileSelect(index))
             => running /\ ~finished]_vars
    /\ [][(SubmitShort \/ SubmitWord) => running /\ ~finished /\ SolverReady]_vars
    /\ [][((~running \/ finished) /\ selected' # selected)
             => handleClear \/ handleStart \/ Reload]_vars
    /\ [][((~running \/ finished \/ ~SolverReady) /\ Tally' # Tally)
             => NameContinue \/ handleStart \/ Reload]_vars
    /\ [](running => SolverReady /\ dictLoaded /\ gameReady)

\* the round is over with two tiles still selected and nothing submitted
C29_Witness ==
    /\ finished
    /\ ~running
    /\ restoredResult = <<>>
    /\ selected = <<0, 1>>
    /\ submissions = <<>>

---------------------------------------------------------------------------
(* The stored result: what the claims say *)

\* the stored entry holds score, foundWords and submissions as the page has
\* them
StoredIsCurrent ==
    /\ storage # <<>>
    /\ storage[1].score = score
    /\ {storage[1].foundWords[i] : i \in 1..Len(storage[1].foundWords)} = foundWords
    /\ Len(storage[1].foundWords) = Cardinality(foundWords)
    /\ storage[1].submissions = submissions

---------------------------------------------------------------------------
(* The result of a round that was already played, after a reload *)

\* the page shows the stored entry as the result of a round already played
ShowsStored ==
    /\ restoredResult = storage
    /\ finished
    /\ ~running
    /\ score = storage[1].score
    /\ foundWords = {storage[1].foundWords[i] : i \in 1..Len(storage[1].foundWords)}
    /\ submissions = storage[1].submissions

\* C31: when the result of a finished round is stored under today's puzzle
\* id, closing the name modal of a page loaded anew sets restoredResult,
\* finished = true, running = false, and score, foundWords and submissions
\* to those of the entry; handleStart does nothing on a page that has
\* restored a result; and as long as the name modal is open nothing is
\* restored: no result, not finished, the tally that of a new page
C31_RestoreRoundTrip ==
    /\ [][(storage # <<>> /\ NameContinue) => (restoredResult' # <<>> /\ ShowsStored')]_vars
    /\ [][handleStart => restoredResult = <<>> /\ ~finished]_vars
    /\ [](restoredResult # <<>> => ~ENABLED handleStart)
    /\ [](showNameModal =>
            /\ restoredResult = <<>>
            /\ ~finished
            /\ Tally = <<0, {}, <<>> >>)

\* a page loaded anew, its dictionary and solver ready again, shows the round
\* that was played before the reload: one submission, and Start does nothing
C31_Witness ==
    /\ roundStarted
    /\ ~showNameModal
    /\ gameReady /\ dictLoaded /\ SolverReady
    /\ restoredResult # <<>>
    /\ ShowsStored
    /\ Len(submissions) = 1
    /\ timeLeft = GAME_SECONDS

---------------------------------------------------------------------------
(* A stored item that is not the result of a round                         *)

\* the item under the key is not parseable JSON, or parses to a value
\* without a numeric score or without an array foundWords
Corrupt ==
    /\ storage # <<>>
    /\ LET parsed == ParseOf(storage[1])
       IN  \/ parsed.throws
           \/ parsed.scoreType # "number"
           \/ ~parsed.wordsArray

\* C32: when the item stored for the puzzle id is not parseable JSON, or
\* parses to a value without a numeric score or without an array
\* foundWords, the restore leaves restoredResult null, finished false and
\* gameReady true and does not touch score and foundWords; and on that page,
\* once grid and dictionary are there, handleStart starts a round
C32_CorruptNotPlayed ==
    /\ [][(Corrupt /\ NameContinue) =>
            /\ restoredResult' = <<>>
            /\ ~finished'
            /\ gameReady'
            /\ score' = score /\ foundWords' = foundWords]_vars
    /\ [](Corrupt => ~finished /\ restoredResult = <<>>)
    /\ [](Corrupt /\ ~showNameModal /\ SolverReady /\ dictLoaded /\ ~running => ENABLED handleStart)

\* a round is running on a page whose stored item could not be parsed
C32_Witness ==
    /\ Corrupt
    /\ ParseOf(storage[1]).throws
    /\ ~showNameModal
    /\ running
    /\ restoredResult = <<>>
    /\ Len(submissions) = 1

---------------------------------------------------------------------------
(* The two revisions of the submission policy: what the claims say *)

\* the earlier revision, given the paths submitted in this round
Earlier == EarlierRun(submissions)

\* C33: for the same grid, the same dictionary index and the same sequence of
\* submitted paths, the current policy and the earlier one give every
\* submission the same status and hold the same foundWords; the deltas are
\* the same for new and duplicate, and for invalid -1 now and 0 before
C33_PoliciesAgree ==
    (running \/ finished) =>
        /\ Len(Earlier.submissions) = Len(submissions)
        /\ Earlier.foundWords = foundWords
        /\ \A i \in 1..Len(submissions) :
              LET now == submissions[i]
                  before == Earlier.submissions[i]
              IN  /\ before.status = now.status
                  /\ before.word = now.word
                  /\ now.status # "invalid" => before.delta = now.delta
                  /\ now.status = "invalid" => now.delta = -1 /\ before.delta = 0

\* a word found and then submitted again: new and then duplicate under the
\* current policy, which looks at foundWords first, and under the earlier
\* one, which looks at the dictionary first
C33_Witness ==
    /\ running
    /\ Len(submissions) = 2
    /\ submissions[2].status = "new"
    /\ submissions[1].status = "duplicate"
    /\ submissions[1].word = submissions[2].word
    /\ Earlier.submissions[1].status = "duplicate"
    /\ Earlier.foundWords = {submissions[1].word}

---------------------------------------------------------------------------
(* The leaderboard: what the claims say *)

\* the entries of a list without rank and isCurrentPlayer, as a bag
RECURSIVE EntriesBag(_)
EntriesBag(list) ==
    IF list = <<>> THEN EmptyBag
    ELSE EntriesBag(Tail(list)) (+)
         SetToBag({[name |-> Head(list).name, score |-> Head(list).score,
                    wordsFound |-> Head(list).wordsFound]})

\* C34: getLeaderboardWithPlayer returns exactly 8 entries, the 7 fixed ones
\* and the player's, with ranks 1..8 in list order, and of two consecutive
\* entries the first has the higher score, or the same score and at least as
\* many words found; DUMMY_LEADERBOARD is not modified by the call
C34_LeaderboardRanking ==
    /\ DUMMY_LEADERBOARD = LeaderboardData
    /\ pc = "leaderboardDone" =>
          /\ Len(leaderboardEntries) = 8
          /\ EntriesBag(leaderboardEntries) = EntriesBag(LeaderboardData \o player)
          /\ \A i \in 1..8 : leaderboardEntries[i].rank = i
          /\ \A i \in 1..7 :
                LET x == leaderboardEntries[i]
                    y == leaderboardEntries[i + 1]
                IN  \/ x.score > y.score
                    \/ x.score = y.score /\ x.wordsFound >= y.wordsFound

\* a player with Johan's score and more words found is ranked second, before
\* Johan
C34_Witness ==
    /\ pc = "leaderboardDone"
    /\ player = <<[name |-> "Dan", score |-> 42, wordsFound |-> 16]>>
    /\ Len(leaderboardEntries) = 8
    /\ leaderboardEntries[2].name = "Dan" /\ leaderboardEntries[2].isCurrentPlayer
    /\ leaderboardEntries[3].name = "Johan"

---------------------------------------------------------------------------
(* The page without its dictionary: what the claims say *)

\* the page has degraded: an empty index, the error shown, nothing to find,
\* and a round in which nothing is scored
Degraded ==
    /\ pc \in {"built", "solve", "solved", "page"} =>
          words = {} /\ prefixes = {} /\ loadError
    /\ pc \in {"solved", "page"} => allWords = <<>>
    /\ pc = "page" => dictLoaded
    /\ \A i \in 1..Len(submissions) : submissions[i].status # "new"
    /\ score = 0
    /\ foundWords = {}

\* C12: when the dictionary source cannot be loaded, whether the request
\* fails or is answered with an error status, the page degrades
C12_UnavailableDictionary == response # "ok" => Degraded

\* the part of C12 the code meets: the page degrades when the request fails
C12_RejectedLoadDegrades == response = "networkError" => Degraded

\* a round started on the degraded page, with the three tiles n, o, t
\* submitted
C12_RejectedWitness ==
    /\ response = "networkError" /\ loadError /\ dictLoaded
    /\ running
    /\ Len(submissions) >= 1
    /\ submissions[1] = [word |-> <<"n","o","t">>, delta |-> -1, status |-> "invalid"]


---------------------------------------------------------------------------
(* Scoring: what the claims say *)

\* the letters of the tiles at the positions sel, in order
RECURSIVE SpelledBy(_)
SpelledBy(sel) ==
    IF sel = <<>> THEN <<>>
    ELSE SpelledBy(SubSeq(sel, 1, Len(sel) - 1)) \o grid[sel[Len(sel)]]

\* the step records a submission
SubmissionStep == Len(submissions') = Len(submissions) + 1

\* the decision of the scoring rule on such a step, in the order of the
\* claim, for the word w that was selected
ScoringRule(w) ==
    LET sub == submissions'[1] IN
    IF Len(w) < 3
    THEN /\ sub.status = "invalid" /\ sub.delta = -1
         /\ foundWords' = foundWords
    ELSE IF w \in foundWords
    THEN /\ sub = [word |-> w, delta |-> -1, status |-> "duplicate"]
         /\ foundWords' = foundWords
    ELSE IF w \in Range(allWords)
    THEN /\ sub = [word |-> w, delta |-> Len(w) - 2, status |-> "new"]
         /\ foundWords' = foundWords \cup {w}
    ELSE /\ sub = [word |-> w, delta |-> -1, status |-> "invalid"]
         /\ foundWords' = foundWords

\* C5: a submission is recorded only while a round is running, in front of
\* the earlier ones, and it is decided in this order: too short (invalid,
\* -1), already found (duplicate, -1), in the solver's solution set (new,
\* length - 2, added to foundWords), else invalid, -1; foundWords changes
\* only in the third case
C5_ScoringRule ==
    [][SubmissionStep =>
          /\ running /\ ~finished
          /\ submissions' = <<submissions'[1]>> \o submissions
          /\ ScoringRule(LettersOfLine(SpelledBy(selected)))]_vars

\* quats scored as new with delta 3, then submitted again: a duplicate
C5_Witness ==
    /\ Len(submissions) = 2
    /\ submissions[2] = [word |-> <<"q","u","a","t","s">>, delta |-> 3, status |-> "new"]
    /\ submissions[1].status = "duplicate"
    /\ foundWords = {<<"q","u","a","t","s">>}
    /\ score = 2

\* C6: the score is never negative, and a submission with delta d replaces
\* it by max(0, score + d)
C6_ScoreFloor ==
    /\ [](score >= 0)
    /\ [][SubmissionStep =>
            LET d == submissions'[1].delta IN
            score' = IF score + d < 0 THEN 0 ELSE score + d]_vars

\* two penalties recorded at score 0
C6_Witness ==
    /\ running
    /\ score = 0
    /\ Len(submissions) = 2
    /\ submissions[1].delta = -1 /\ submissions[2].delta = -1

====
